---- MODULE Spec2Model ----
(***************************************************************************)
(* env-typed-checker: the schema normalizer (normalizeSpec, coerceDefault, *)
(* parseByType) and the validation runner (validateAndParse).              *)
(*                                                                         *)
(* A JavaScript string is a sequence of one-character strings, so that     *)
(* trimming, slicing, case folding and matching are computed, not assumed. *)
(* A JavaScript value is a record [t, s, n, b]: t is the value's class,    *)
(* s its text (strings), n its integer (numbers), b its truth (booleans).  *)
(***************************************************************************)
EXTENDS Integers, Sequences, FiniteSets, TLC

\* ------------------------------------------------------------------------
\* Bounds of the model
\* ------------------------------------------------------------------------
\* the largest number of keys a multi-key schema holds
MaxKeys == 2
\* the longest raw string enumerated exhaustively over RawAlphabet
MaxRawLen == 2
\* the number of times normalizeSpec is called on one declaration
MaxCalls == 2

\* ------------------------------------------------------------------------
\* Strings
\* ------------------------------------------------------------------------
Min(S) == CHOOSE x \in S : \A y \in S : x <= y
Max(S) == CHOOSE x \in S : \A y \in S : x >= y

Digits == <<"0", "1", "2", "3", "4", "5", "6", "7", "8", "9">>
Upper == <<"A", "B", "C", "D", "E", "F", "G", "H", "I", "J", "K", "L", "M",
           "N", "O", "P", "Q", "R", "S", "T", "U", "V", "W", "X", "Y", "Z">>
Lower == <<"a", "b", "c", "d", "e", "f", "g", "h", "i", "j", "k", "l", "m",
           "n", "o", "p", "q", "r", "s", "t", "u", "v", "w", "x", "y", "z">>

Range(f) == {f[i] : i \in DOMAIN f}
IsDigit(c) == c \in Range(Digits)
IsAlpha(c) == c \in Range(Upper) \cup Range(Lower)
DigitVal(c) == (CHOOSE i \in DOMAIN Digits : Digits[i] = c) - 1

\* White space as String.prototype.trim, Number and the RegExp class \s see it
WhiteSpace == {" ", "\t", "\n", "\r"}

\* String.prototype.trim
TrimTo(s, keep) == IF keep = {} THEN <<>> ELSE SubSeq(s, Min(keep), Max(keep))
Trim(s) == TrimTo(s, {i \in 1..Len(s) : s[i] \notin WhiteSpace})

ToLowerChar(c) ==
  IF c \in Range(Upper)
  THEN Lower[CHOOSE i \in DOMAIN Upper : Upper[i] = c]
  ELSE c

\* String.prototype.toLowerCase
ToLowerCase(s) == [i \in 1..Len(s) |-> ToLowerChar(s[i])]

\* String.prototype.endsWith, for a one-character suffix
EndsWith(s, c) == Len(s) > 0 /\ s[Len(s)] = c

\* String.prototype.slice(0, -1)
SliceDropLast(s) == IF Len(s) = 0 THEN <<>> ELSE SubSeq(s, 1, Len(s) - 1)

\* the decimal value of a non-empty run of digits
RECURSIVE DigitsValue(_)
DigitsValue(s) ==
  IF Len(s) = 0 THEN 0
  ELSE 10 * DigitsValue(SubSeq(s, 1, Len(s) - 1)) + DigitVal(s[Len(s)])

AllDigits(s) == Len(s) > 0 /\ \A i \in 1..Len(s) : IsDigit(s[i])

\* the decimal digits of a natural number (Number.prototype.toString)
RECURSIVE NatToString(_)
NatToString(n) ==
  IF n < 10 THEN <<Digits[n + 1]>>
  ELSE Append(NatToString(n \div 10), Digits[(n % 10) + 1])

\* Array.prototype.join over strings
RECURSIVE Join(_, _)
Join(strs, sep) ==
  IF Len(strs) = 0 THEN <<>>
  ELSE IF Len(strs) = 1 THEN strs[1]
  ELSE strs[1] \o sep \o Join(Tail(strs), sep)

\* ------------------------------------------------------------------------
\* JavaScript values
\* ------------------------------------------------------------------------
Undef == [t |-> "undefined", s |-> <<>>, n |-> 0, b |-> FALSE]
Null == [t |-> "null", s |-> <<>>, n |-> 0, b |-> FALSE]
Str(s) == [t |-> "string", s |-> s, n |-> 0, b |-> FALSE]
Num(n) == [t |-> "number", s |-> <<>>, n |-> n, b |-> FALSE]
NaN == [t |-> "NaN", s |-> <<>>, n |-> 0, b |-> FALSE]
Infinity(sign) == [t |-> "Infinity", s |-> <<>>, n |-> sign, b |-> FALSE]
Bool(b) == [t |-> "boolean", s |-> <<>>, n |-> 0, b |-> b]
\* a plain object and an array other than a declaration, kept opaque
PlainObject == [t |-> "object", s |-> <<>>, n |-> 0, b |-> FALSE]
PlainArray == [t |-> "array", s |-> <<>>, n |-> 0, b |-> FALSE]

\* the typeof operator
TypeOf(v) ==
  CASE v.t \in {"number", "NaN", "Infinity"} -> "number"
    [] v.t \in {"null", "object", "array"} -> "object"
    [] OTHER -> v.t

\* Number.isFinite
IsFinite(v) == v.t = "number"

\* ToBoolean, as the !! of normalizeSpec applies it
ToBoolean(v) ==
  CASE v.t = "boolean" -> v.b
    [] v.t = "string" -> v.s # <<>>
    [] v.t = "number" -> v.n # 0
    [] v.t = "Infinity" -> TRUE
    [] v.t \in {"object", "array"} -> TRUE
    [] OTHER -> FALSE

\* String(v)
ToStringJS(v) ==
  CASE v.t = "string" -> v.s
    [] v.t = "undefined" -> <<"u", "n", "d", "e", "f", "i", "n", "e", "d">>
    [] v.t = "null" -> <<"n", "u", "l", "l">>
    [] v.t = "boolean" /\ v.b -> <<"t", "r", "u", "e">>
    [] v.t = "boolean" /\ ~v.b -> <<"f", "a", "l", "s", "e">>
    [] v.t = "number" /\ v.n >= 0 -> NatToString(v.n)
    [] v.t = "number" /\ v.n < 0 -> <<"-">> \o NatToString(0 - v.n)
    [] v.t = "NaN" -> <<"N", "a", "N">>
    [] v.t = "object" ->
         <<"[", "o", "b", "j", "e", "c", "t", " ", "O", "b", "j", "e", "c", "t", "]">>
    [] v.t = "array" -> <<>>

\* ------------------------------------------------------------------------
\* String literals of the source
\* ------------------------------------------------------------------------
S_string == <<"s", "t", "r", "i", "n", "g">>
S_number == <<"n", "u", "m", "b", "e", "r">>
S_boolean == <<"b", "o", "o", "l", "e", "a", "n">>
S_json == <<"j", "s", "o", "n">>
S_url == <<"u", "r", "l">>
S_email == <<"e", "m", "a", "i", "l">>
S_enum == <<"e", "n", "u", "m">>
S_regex == <<"r", "e", "g", "e", "x">>
S_true == <<"t", "r", "u", "e">>
S_false == <<"f", "a", "l", "s", "e">>
S_null == <<"n", "u", "l", "l">>
S_yes == <<"y", "e", "s">>
S_no == <<"n", "o">>
S_on == <<"o", "n">>
S_off == <<"o", "f", "f">>
S_Infinity == <<"I", "n", "f", "i", "n", "i", "t", "y">>
S_http == <<"h", "t", "t", "p">>
S_https == <<"h", "t", "t", "p", "s">>
S_ftp == <<"f", "t", "p">>
S_ws == <<"w", "s">>
S_wss == <<"w", "s", "s">>
S_file == <<"f", "i", "l", "e">>

\* ------------------------------------------------------------------------
\* Results and messages
\* ------------------------------------------------------------------------
\* An Error's message: tag is the template literal of the source, a and b are
\* the strings interpolated into it, in order.
Msg(tag, a, b) == [tag |-> tag, a |-> a, b |-> b]
NoMsg == Msg("", <<>>, <<>>)

\* a built-in that returned v / that threw
Returned(v) == [ok |-> TRUE, value |-> v, message |-> NoMsg]
Threw(m) == [ok |-> FALSE, value |-> Undef, message |-> m]

\* a function of the module that returned v / that threw new Error(m), and
\* the lastIndex it left in the module-level EMAIL_RE
ReturnValue(v, li) == [ok |-> TRUE, value |-> v, message |-> NoMsg, li |-> li]
ThrowError(m, li) == [ok |-> FALSE, value |-> Undef, message |-> m, li |-> li]

\* ------------------------------------------------------------------------
\* Built-ins that parseByType calls
\* ------------------------------------------------------------------------
\* characters that can occur in a numeric literal (decimal, hex, octal,
\* binary, exponent, fraction)
NumeralChars ==
  Range(Digits) \cup {"+", "-", ".", "e", "E", "x", "X", "o", "O", "b", "B",
                      "a", "c", "d", "f", "A", "C", "D", "F"}

\* characters that can occur in a decimal literal
DecimalChars == Range(Digits) \cup {"+", "-", ".", "e", "E"}

\* a 0x, 0o or 0b prefix
HasRadixPrefix(t) ==
  Len(t) >= 2 /\ t[1] = "0" /\ t[2] \in {"x", "X", "o", "O", "b", "B"}

\* texts, other than Infinity, that no numeric literal grammar accepts
NotANumeral(t) ==
  \/ \A i \in 1..Len(t) : ~IsDigit(t[i])
  \/ \E i \in 1..Len(t) : t[i] \notin NumeralChars
  \/ ~HasRadixPrefix(t) /\ \E i \in 1..Len(t) : t[i] \notin DecimalChars
  \/ \A i \in 1..Len(t) : IsDigit(t[i]) \/ t[i] \in {"+", "-"}

\* Number(s): StringToNumber. Signed decimal integers, Infinity and the
\* texts that are certainly not numerals are decided; a fraction, an exponent
\* or a radix prefix matches no arm (such texts are not among the inputs).
StringToNumber(t, neg, body) ==
  CASE t = <<>> -> Num(0)
    [] body = S_Infinity -> Infinity(IF neg THEN -1 ELSE 1)
    [] AllDigits(body) ->
         Num(IF neg THEN 0 - DigitsValue(body) ELSE DigitsValue(body))
    [] body # S_Infinity /\ ~AllDigits(body) /\ NotANumeral(t) -> NaN

\* a literal without its sign
Unsigned(t) == IF Len(t) > 0 /\ t[1] \in {"+", "-"} THEN Tail(t) ELSE t
IsNegative(t) == Len(t) > 0 /\ t[1] = "-"

TrimmedToNumber(t) == StringToNumber(t, IsNegative(t), Unsigned(t))
NumberOf(s) == TrimmedToNumber(Trim(s))

\* the JSON grammar's integer: -?(0|[1-9][0-9]*)
JsonDigits(body) == AllDigits(body) /\ (Len(body) = 1 \/ body[1] # "0")
IsJsonInt(t) == JsonDigits(IF Len(t) > 0 /\ t[1] = "-" THEN Tail(t) ELSE t)

\* JSON.parse(text): scalars are decided (true, false, null, integers) and so
\* are the texts that certainly are not JSON; a string, array or object
\* literal matches no arm (such texts are not among the inputs).
JSONValue(t, isInt, numStart) ==
  CASE t = S_true -> Returned(Bool(TRUE))
    [] t = S_false -> Returned(Bool(FALSE))
    [] t = S_null -> Returned(Null)
    [] isInt -> Returned(TrimmedToNumber(t))
    [] t = <<>> -> Threw(NoMsg)
    [] ~numStart /\ t[1] \notin {"[", "{", "\""} -> Threw(NoMsg)
    [] numStart /\ ~isInt
         /\ \A i \in 1..Len(t) : IsDigit(t[i]) \/ t[i] = "-" -> Threw(NoMsg)
    [] numStart
         /\ \E i \in 1..Len(t) :
              ~IsDigit(t[i]) /\ t[i] \notin {"-", "+", ".", "e", "E"} -> Threw(NoMsg)

JSONTrimmed(t) ==
  JSONValue(t, IsJsonInt(t), Len(t) > 0 /\ (IsDigit(t[1]) \/ t[1] = "-"))
JSONParse(text) == JSONTrimmed(Trim(text))

\* the URL parser's scheme: [A-Za-z][A-Za-z0-9+.-]* before the first ":"
IsScheme(s) ==
  /\ Len(s) > 0
  /\ IsAlpha(s[1])
  /\ \A i \in 1..Len(s) : IsAlpha(s[i]) \/ IsDigit(s[i]) \/ s[i] \in {"+", "-", "."}

SpecialSchemes == {S_http, S_https, S_ftp, S_ws, S_wss, S_file}

\* a host of letters and single dots
SimpleHost(h) ==
  /\ Len(h) > 0
  /\ IsAlpha(h[1]) /\ IsAlpha(h[Len(h)])
  /\ \A i \in 1..Len(h) : IsAlpha(h[i]) \/ h[i] = "."
  /\ \A i \in 1..(Len(h) - 1) : ~(h[i] = "." /\ h[i + 1] = ".")

\* new URL(input) without a base: TRUE when it constructs, FALSE when it
\* throws. Decided: no scheme (throws), a non-special scheme with an opaque
\* path or a one-slash path (constructs), http(s)://host with a host of letters
\* and dots (constructs) or with no host (throws). Other inputs match no arm.
URLParts(scheme, rest, slashes) ==
  CASE ~IsScheme(scheme) -> FALSE
    [] IsScheme(scheme) /\ scheme \notin SpecialSchemes /\ slashes < 2 -> TRUE
    [] scheme \in {S_http, S_https} /\ slashes = 2
         /\ SimpleHost(SubSeq(rest, 3, Len(rest))) -> TRUE
    [] scheme \in {S_http, S_https} /\ slashes = 2 /\ Len(rest) = 2 -> FALSE

\* the number of slashes, up to two, that rest starts with
LeadingSlashes(rest) ==
  IF Len(rest) >= 2 /\ rest[1] = "/" /\ rest[2] = "/" THEN 2
  ELSE IF Len(rest) >= 1 /\ rest[1] = "/" THEN 1 ELSE 0

\* t split at offset c of its first ":" (c = 0: there is none, so no scheme)
URLSplit(t, c) ==
  IF c = 0 THEN FALSE
  ELSE URLParts(ToLowerCase(SubSeq(t, 1, c - 1)), SubSeq(t, c + 1, Len(t)),
                LeadingSlashes(SubSeq(t, c + 1, Len(t))))

FirstColon(t) ==
  IF \A i \in 1..Len(t) : t[i] # ":" THEN 0
  ELSE Min({i \in 1..Len(t) : t[i] = ":"})

URLTrimmed(t) == URLSplit(t, FirstColon(t))
URLParses(input) == URLTrimmed(Trim(input))

\* EMAIL_RE = /^[^\s@]+@[^\s@]+\.[^\s@]+$/: whether all of s matches
EmailShape(s) ==
  \E p \in 1..Len(s), q \in 1..Len(s) :
    /\ s[p] = "@" /\ s[q] = "."
    /\ p >= 2 /\ q >= p + 2 /\ q <= Len(s) - 1
    /\ \A i \in (1..Len(s)) \ {p} : s[i] \notin WhiteSpace \cup {"@"}

\* variant: an EMAIL_RE literal written with the g flag, which makes test()
\* read and advance lastIndex
EMAIL_RE_flags_global == <<"g">>

\* the flags of the EMAIL_RE literal: none
EMAIL_RE_flags == <<>>

\* EMAIL_RE.test(s) with EMAIL_RE.lastIndex = li: the answer and the lastIndex
\* the call leaves. The pattern is anchored, so it matches only from offset 0;
\* lastIndex is read and written only under a g or y flag.
EMAIL_RE_test(s, li) ==
  IF "g" \in Range(EMAIL_RE_flags) \/ "y" \in Range(EMAIL_RE_flags)
  THEN IF li = 0 /\ EmailShape(s)
       THEN [matched |-> TRUE, lastIndex |-> Len(s)]
       ELSE [matched |-> FALSE, lastIndex |-> 0]
  ELSE [matched |-> EmailShape(s), lastIndex |-> li]

\* ------------------------------------------------------------------------
\* parseByType
\* ------------------------------------------------------------------------
TrueTokens == {S_true, <<"1">>, S_yes, <<"y">>, S_on}
FalseTokens == {S_false, <<"0">>, S_no, <<"n">>, S_off}

\* the outcomes of the cases of parseByType, given what the built-in gave;
\* li is EMAIL_RE.lastIndex when parseByType is called
numberParsed(raw, n, li) ==
  IF ~IsFinite(n)
  THEN ThrowError(Msg("expected number, got \"${raw}\"", raw, <<>>), li)
  ELSE ReturnValue(n, li)

\* variant: the one-letter tokens y and n are not taken
booleanParsedWords(raw, v, li) ==
  IF v \in TrueTokens \ {<<"y">>} THEN ReturnValue(Bool(TRUE), li)
  ELSE IF v \in FalseTokens \ {<<"n">>} THEN ReturnValue(Bool(FALSE), li)
  ELSE ThrowError(Msg("expected boolean (true/false/1/0/yes/no/on/off), got \"${raw}\"",
                      raw, <<>>), li)

booleanParsed(raw, v, li) ==
  IF v \in TrueTokens THEN ReturnValue(Bool(TRUE), li)
  ELSE IF v \in FalseTokens THEN ReturnValue(Bool(FALSE), li)
  ELSE ThrowError(Msg("expected boolean (true/false/1/0/yes/no/on/off), got \"${raw}\"",
                      raw, <<>>), li)

jsonParsed(raw, r, li) ==
  IF r.ok THEN ReturnValue(r.value, li)
  ELSE ThrowError(Msg("expected json, got \"${raw}\"", raw, <<>>), li)

emailParsed(raw, s, tested) ==
  IF ~tested.matched
  THEN ThrowError(Msg("expected email, got \"${raw}\"", raw, <<>>), tested.lastIndex)
  ELSE ReturnValue(Str(s), tested.lastIndex)

parseByType(type, raw, li) ==
  CASE type = S_string -> ReturnValue(Str(raw), li)
    [] type = S_number -> numberParsed(raw, NumberOf(Trim(raw)), li)
    [] type = S_boolean -> booleanParsed(raw, ToLowerCase(Trim(raw)), li)
    [] type = S_json -> jsonParsed(raw, JSONParse(raw), li)
    [] type = S_url ->
         IF URLParses(raw) THEN ReturnValue(Str(raw), li)
         ELSE ThrowError(Msg("expected url, got \"${raw}\"", raw, <<>>), li)
    [] type = S_email -> emailParsed(raw, Trim(raw), EMAIL_RE_test(Trim(raw), li))
    [] OTHER ->
         ThrowError(Msg("unsupported primitive type: ${String(type)}", type, <<>>), li)

\* ------------------------------------------------------------------------
\* RegExp
\* ------------------------------------------------------------------------
\* the patterns of the model
P_a == <<"a">>
P_anchored == <<"^", "a", "+", "$">>
P_unterminated == <<"(">>

RegExpFlagChars == {"d", "g", "i", "m", "s", "u", "v", "y"}

\* the flags new RegExp accepts: known letters, none twice, not u with v
ValidFlags(f) ==
  /\ \A i \in 1..Len(f) : f[i] \in RegExpFlagChars
  /\ \A i, j \in 1..Len(f) : i # j => f[i] # f[j]
  /\ ~("u" \in Range(f) /\ "v" \in Range(f))

\* whether the pattern is syntactically a regular expression
PatternCompiles(pattern) ==
  CASE pattern \in {P_a, P_anchored} -> TRUE
    [] pattern = P_unterminated -> FALSE

\* new RegExp(pattern, flags): the object, or a SyntaxError
RegExpNew(pattern, flags) ==
  IF PatternCompiles(pattern) /\ ValidFlags(flags)
  THEN Returned([pattern |-> pattern, flags |-> flags, lastIndex |-> 0])
  ELSE Threw(Msg("SyntaxError: Invalid regular expression", pattern, flags))

NoRegExp == [pattern |-> <<>>, flags |-> <<>>, lastIndex |-> 0]

\* the character c of the subject against the pattern character "a"
MatchesA(c, flags) == IF "i" \in Range(flags) THEN ToLowerChar(c) = "a" ELSE c = "a"

\* the end offset of the pattern's match that starts at offset i of s
\* (offsets from 0), or -1 when there is none
MatchEnd(pattern, flags, s, i) ==
  CASE pattern = P_a ->
         IF i < Len(s) /\ MatchesA(s[i + 1], flags) THEN i + 1 ELSE -1
    [] pattern = P_anchored /\ "m" \notin Range(flags) ->
         IF i = 0 /\ Len(s) >= 1 /\ \A k \in 1..Len(s) : MatchesA(s[k], flags)
         THEN Len(s) ELSE -1

\* RegExp.prototype.test (RegExpBuiltinExec): the answer and the object after
\* the call. With g or y the search starts at lastIndex and leaves lastIndex
\* at the end of the match, or at 0 after a failure.
RegExpTest(re, s) ==
  LET global == "g" \in Range(re.flags)
      sticky == "y" \in Range(re.flags)
      stateful == global \/ sticky
      start == IF stateful THEN re.lastIndex ELSE 0
      candidates == IF start > Len(s) THEN {}
                    ELSE IF sticky THEN {start} ELSE start..Len(s)
      hits == {i \in candidates : MatchEnd(re.pattern, re.flags, s, i) >= 0}
  IN IF hits = {}
     THEN [matched |-> FALSE,
           re |-> [re EXCEPT !.lastIndex = IF stateful THEN 0 ELSE re.lastIndex]]
     ELSE [matched |-> TRUE,
           re |-> [re EXCEPT !.lastIndex =
                     IF stateful
                     THEN MatchEnd(re.pattern, re.flags, s, Min(hits))
                     ELSE re.lastIndex]]

\* ------------------------------------------------------------------------
\* Schema declarations (EnvSchemaValue, as the JavaScript value it is)
\* ------------------------------------------------------------------------
\* the `values` property: an array of values, or something that is no array
ArrayOf(elems) == [isArray |-> TRUE, elems |-> elems]
NotArray == [isArray |-> FALSE, elems |-> <<>>]

\* a string declaration such as "number?"
StringDecl(s) ==
  [shape |-> "string", str |-> s, type |-> Undef, optional |-> Undef,
   hasDefault |-> FALSE, default |-> Undef, values |-> NotArray,
   pattern |-> Undef, flags |-> Undef,
   description |-> Undef, example |-> Undef, secret |-> Undef]

\* a declaration that is neither a string nor a plain object:
\* shape is "null", "array", "number" or "undefined"
OtherDecl(shape) == [StringDecl(<<>>) EXCEPT !.shape = shape]

\* the object declaration with no property
EmptyObjectDecl == [StringDecl(<<>>) EXCEPT !.shape = "object"]

PrimitiveDecl(type) == [EmptyObjectDecl EXCEPT !.type = Str(type)]
EnumDecl(elems) ==
  [EmptyObjectDecl EXCEPT !.type = Str(S_enum), !.values = ArrayOf(elems)]
RegexDecl(pattern, flags) ==
  [EmptyObjectDecl EXCEPT !.type = Str(S_regex), !.pattern = pattern, !.flags = flags]
WithDefault(decl, def) == [decl EXCEPT !.hasDefault = TRUE, !.default = def]
WithOptional(decl, opt) == [decl EXCEPT !.optional = opt]
\* the metadata properties an object declaration may carry
WithMeta(decl, description, example, secret) ==
  [decl EXCEPT !.description = description, !.example = example, !.secret = secret]

\* hasOwn(schemaValue, "default")
hasOwn(obj) == obj.hasDefault

\* ------------------------------------------------------------------------
\* NormalizedSpec
\* ------------------------------------------------------------------------
NormalizedSpec(kind, optional, defaultValue, values, re, display) ==
  [kind |-> kind, optional |-> optional, defaultValue |-> defaultValue,
   values |-> values, re |-> re, display |-> display]

NoSpec == NormalizedSpec(<<>>, FALSE, Undef, <<>>, NoRegExp, <<>>)

\* normalizeSpec returned spec / normalizeSpec threw new Error(m), and the
\* lastIndex it left in the module-level EMAIL_RE
Normalized(spec, li) == [ok |-> TRUE, spec |-> spec, message |-> NoMsg, li |-> li]
Rejected(m, li) == [ok |-> FALSE, spec |-> NoSpec, message |-> m, li |-> li]

allowed == {S_string, S_number, S_boolean, S_json, S_url, S_email}

\* ------------------------------------------------------------------------
\* coerceDefault
\* ------------------------------------------------------------------------
\* variant: a default taken as written, with no check against its kind
coerceDefaultUnchecked(kind, def, li) == ReturnValue(def, li)

coerceDefault(kind, def, li) ==
  IF def = Undef THEN ReturnValue(Undef, li)
  ELSE CASE kind = S_string ->
              IF TypeOf(def) # "string"
              THEN ThrowError(Msg("default for string must be a string", <<>>, <<>>), li)
              ELSE ReturnValue(def, li)
         [] kind = S_number ->
              IF TypeOf(def) = "number"
              THEN IF ~IsFinite(def)
                   THEN ThrowError(Msg("default for number must be finite", <<>>, <<>>), li)
                   ELSE ReturnValue(def, li)
              ELSE IF TypeOf(def) = "string" THEN parseByType(S_number, def.s, li)
              ELSE ThrowError(Msg("default for number must be number or string", <<>>, <<>>),
                              li)
         [] kind = S_boolean ->
              IF TypeOf(def) = "boolean" THEN ReturnValue(def, li)
              ELSE IF TypeOf(def) = "string" THEN parseByType(S_boolean, def.s, li)
              ELSE ThrowError(Msg("default for boolean must be boolean or string", <<>>, <<>>),
                              li)
         [] kind = S_json -> ReturnValue(def, li)
         [] kind = S_url ->
              IF TypeOf(def) # "string"
              THEN ThrowError(Msg("default for url must be a string", <<>>, <<>>), li)
              ELSE parseByType(S_url, def.s, li)
         [] kind = S_email ->
              IF TypeOf(def) # "string"
              THEN ThrowError(Msg("default for email must be a string", <<>>, <<>>), li)
              ELSE parseByType(S_email, def.s, li)
         [] OTHER ->
              ThrowError(Msg("unsupported default kind: ${String(kind)}", kind, <<>>), li)

\* ------------------------------------------------------------------------
\* normalizeSpec
\* ------------------------------------------------------------------------
\* String style: "number?" etc.
stringSpec(schemaValue, optional, base, li) ==
  IF base \notin allowed
  THEN Rejected(Msg("Unsupported type \"${schemaValue}\". Supported: string, number, boolean, json, url, email (optional with ?)",
                    schemaValue, <<>>), li)
  ELSE Normalized(NormalizedSpec(base, optional, Undef, <<>>, NoRegExp, <<>>), li)

\* variant: the declaration is trimmed and lower-cased first
normalizeStringSpecLenient(schemaValue, li) ==
  stringSpec(schemaValue, EndsWith(Trim(schemaValue), "?"),
             IF EndsWith(Trim(schemaValue), "?")
             THEN ToLowerCase(SliceDropLast(Trim(schemaValue)))
             ELSE ToLowerCase(Trim(schemaValue)),
             li)

normalizeStringSpec(schemaValue, li) ==
  stringSpec(schemaValue, EndsWith(schemaValue, "?"),
             IF EndsWith(schemaValue, "?") THEN SliceDropLast(schemaValue)
             ELSE schemaValue,
             li)

\* Primitive object spec: { type: "number", optional?: true, default?: ... }
primitiveSpec(t, optional, defaultValue) ==
  IF ~defaultValue.ok THEN Rejected(defaultValue.message, defaultValue.li)
  ELSE Normalized(NormalizedSpec(t, optional, defaultValue.value, <<>>, NoRegExp, <<>>),
                  defaultValue.li)

normalizePrimitiveSpec(schemaValue, li) ==
  primitiveSpec(schemaValue.type.s, ToBoolean(schemaValue.optional),
                IF hasOwn(schemaValue)
                THEN coerceDefault(schemaValue.type.s, schemaValue.default, li)
                ELSE ReturnValue(Undef, li))

\* variant: values.some in place of values.every
enumSpecSomeString(values, optional, hasDefault, def, li) ==
  IF \/ ~values.isArray
     \/ Len(values.elems) = 0
     \/ ~(\E i \in 1..Len(values.elems) : TypeOf(values.elems[i]) = "string")
  THEN Rejected(Msg("enum spec requires \"values\": string[] (non-empty)", <<>>, <<>>), li)
  ELSE IF ~hasDefault
  THEN Normalized(NormalizedSpec(S_enum, optional, Undef, values.elems, NoRegExp, <<>>), li)
  ELSE IF TypeOf(def) # "string"
  THEN Rejected(Msg("default for enum must be a string", <<>>, <<>>), li)
  ELSE IF ~(\E i \in 1..Len(values.elems) : values.elems[i] = def)
  THEN Rejected(Msg("default \"${def}\" must be one of [${values.join(\", \")}]",
                    def.s,
                    Join([i \in 1..Len(values.elems) |-> ToStringJS(values.elems[i])],
                         <<",", " ">>)),
                li)
  ELSE Normalized(NormalizedSpec(S_enum, optional, def, values.elems, NoRegExp, <<>>), li)

\* Enum: { type: "enum", values: [...], optional?: true, default?: "dev" }
enumSpec(values, optional, hasDefault, def, li) ==
  IF \/ ~values.isArray
     \/ Len(values.elems) = 0
     \/ ~(\A i \in 1..Len(values.elems) : TypeOf(values.elems[i]) = "string")
  THEN Rejected(Msg("enum spec requires \"values\": string[] (non-empty)", <<>>, <<>>), li)
  ELSE IF ~hasDefault
  THEN Normalized(NormalizedSpec(S_enum, optional, Undef, values.elems, NoRegExp, <<>>), li)
  ELSE IF TypeOf(def) # "string"
  THEN Rejected(Msg("default for enum must be a string", <<>>, <<>>), li)
  ELSE IF ~(\E i \in 1..Len(values.elems) : values.elems[i] = def)
  THEN Rejected(Msg("default \"${def}\" must be one of [${values.join(\", \")}]",
                    def.s,
                    Join([i \in 1..Len(values.elems) |-> values.elems[i].s], <<",", " ">>)), li)
  ELSE Normalized(NormalizedSpec(S_enum, optional, def, values.elems, NoRegExp, <<>>), li)

normalizeEnumSpec(schemaValue, li) ==
  enumSpec(schemaValue.values, ToBoolean(schemaValue.optional),
           hasOwn(schemaValue), schemaValue.default, li)

\* Regex: { type: "regex", pattern: "...", flags?: "...", optional?: true, default?: "abc" }
\* the default, given what re.test(def) answered and left in re
regexDefault(optional, display, def, tested, li) ==
  IF ~tested.matched
  THEN Rejected(Msg("default \"${def}\" does not match ${display}", def, display), li)
  ELSE Normalized(NormalizedSpec(S_regex, optional, Str(def), <<>>, tested.re, display), li)

\* the spec, given what new RegExp(pattern, flags) gave
regexCompiled(optional, display, hasDefault, def, re, li) ==
  IF ~re.ok
  THEN Rejected(Msg("invalid regex: ${String(e)}", re.message.a, re.message.b), li)
  ELSE IF ~hasDefault
  THEN Normalized(NormalizedSpec(S_regex, optional, Undef, <<>>, re.value, display), li)
  ELSE IF TypeOf(def) # "string"
  THEN Rejected(Msg("default for regex must be a string", <<>>, <<>>), li)
  ELSE regexDefault(optional, display, def.s, RegExpTest(re.value, def.s), li)

\* flags ?? "", and the undefined flags new RegExp takes as none
FlagText(flags) == IF flags = Undef THEN <<>> ELSE flags.s

regexSpec(pattern, flags, optional, hasDefault, def, li) ==
  IF TypeOf(pattern) # "string" \/ Len(pattern.s) = 0
  THEN Rejected(Msg("regex spec requires \"pattern\": string", <<>>, <<>>), li)
  ELSE IF flags # Undef /\ TypeOf(flags) # "string"
  THEN Rejected(Msg("regex spec \"flags\" must be a string if provided", <<>>, <<>>), li)
  ELSE regexCompiled(optional, <<"/">> \o pattern.s \o <<"/">> \o FlagText(flags),
                     hasDefault, def, RegExpNew(pattern.s, FlagText(flags)), li)

normalizeRegexSpec(schemaValue, li) ==
  regexSpec(schemaValue.pattern, schemaValue.flags, ToBoolean(schemaValue.optional),
            hasOwn(schemaValue), schemaValue.default, li)

\* the object style, given its type property
objectSpec(schemaValue, t, li) ==
  IF TypeOf(t) = "string" /\ t.s \in allowed
  THEN normalizePrimitiveSpec(schemaValue, li)
  ELSE IF t = Str(S_enum) THEN normalizeEnumSpec(schemaValue, li)
  ELSE IF t = Str(S_regex) THEN normalizeRegexSpec(schemaValue, li)
  ELSE Rejected(Msg("Unsupported object spec type \"${String(t)}\". Supported: primitives (string/number/boolean/json/url/email), enum, regex",
                    ToStringJS(t), <<>>), li)

\* variant: an absent secret is left undefined
secretOfAbsent(schemaValue) == schemaValue.secret

\* variant: the type of secret is not looked at
metaErrorSecretUnchecked(schemaValue) ==
  IF schemaValue.description # Undef /\ TypeOf(schemaValue.description) # "string"
  THEN Msg("\"${field}\" must be a string", <<"d", "e", "s", "c", "r", "i", "p", "t", "i", "o", "n">>, <<>>)
  ELSE IF schemaValue.example # Undef /\ TypeOf(schemaValue.example) # "string"
  THEN Msg("\"${field}\" must be a string", <<"e", "x", "a", "m", "p", "l", "e">>, <<>>)
  ELSE NoMsg

\* Metadata of object-style declarations. The normalizeSpec under
\* src/src/validators/primitives.ts predates the metadata that its tests
\* (src/test/primitives.test.ts:45-80, 129-132), its declarations (EnvSpecMeta)
\* and its caller (src/src/cli/cli.ts:263) rely on; this part follows the
\* specification: description and example must be strings, secret a boolean,
\* a mismatch fails naming the field, and secret is false when absent.
metaError(schemaValue) ==
  IF schemaValue.description # Undef /\ TypeOf(schemaValue.description) # "string"
  THEN Msg("\"${field}\" must be a string", <<"d", "e", "s", "c", "r", "i", "p", "t", "i", "o", "n">>, <<>>)
  ELSE IF schemaValue.example # Undef /\ TypeOf(schemaValue.example) # "string"
  THEN Msg("\"${field}\" must be a string", <<"e", "x", "a", "m", "p", "l", "e">>, <<>>)
  ELSE IF schemaValue.secret # Undef /\ TypeOf(schemaValue.secret) # "boolean"
  THEN Msg("\"${field}\" must be a boolean", <<"s", "e", "c", "r", "e", "t">>, <<>>)
  ELSE NoMsg

\* secret ?? false
secretOf(schemaValue) ==
  IF schemaValue.secret = Undef THEN Bool(FALSE) ELSE schemaValue.secret

\* the normalized spec with its metadata properties
attachMeta(spec, description, example, secret) ==
  IF ~spec.ok THEN spec
  ELSE Normalized(spec.spec @@ [description |-> description, example |-> example,
                                secret |-> secret],
                  spec.li)

normalizeSpec(schemaValue, li) ==
  IF schemaValue.shape = "string"
  THEN attachMeta(normalizeStringSpec(schemaValue.str, li), Undef, Undef, Bool(FALSE))
  ELSE IF schemaValue.shape # "object"
  THEN Rejected(Msg("Schema value must be a string or object spec.", <<>>, <<>>), li)
  ELSE IF metaError(schemaValue) # NoMsg
  THEN Rejected(metaError(schemaValue), li)
  ELSE attachMeta(objectSpec(schemaValue, schemaValue.type, li),
                  schemaValue.description, schemaValue.example, secretOf(schemaValue))

\* ------------------------------------------------------------------------
\* Objects: a sequence of [key, value] properties in creation order
\* ------------------------------------------------------------------------
ObjectKeys(obj) == {obj[i].key : i \in 1..Len(obj)}
ObjectHas(obj, key) == key \in ObjectKeys(obj)
ObjectGet(obj, key) == obj[CHOOSE i \in 1..Len(obj) : obj[i].key = key].value

\* obj[key] = value
ObjectSet(obj, key, value) ==
  IF ObjectHas(obj, key)
  THEN [i \in 1..Len(obj) |->
          IF obj[i].key = key THEN [key |-> key, value |-> value] ELSE obj[i]]
  ELSE Append(obj, [key |-> key, value |-> value])

\* an array index: a canonical numeric string below 2^32 - 1 (any canonical
\* numeric string of up to nine digits is; the keys here are shorter)
IsArrayIndex(key) ==
  /\ AllDigits(key)
  /\ Len(key) = 1 \/ key[1] # "0"
  /\ Len(key) <= 9

\* the positions of obj sorted by the numeric value of their keys
RECURSIVE AscendingIndices(_, _)
AscendingIndices(obj, positions) ==
  IF positions = {} THEN <<>>
  ELSE LET first == CHOOSE i \in positions :
                      \A j \in positions :
                        DigitsValue(obj[i].key) <= DigitsValue(obj[j].key)
       IN <<obj[first]>> \o AscendingIndices(obj, positions \ {first})

\* Object.entries(obj): OrdinaryOwnPropertyKeys lists the array-index keys in
\* ascending numeric order, then the other string keys in creation order
ObjectEntries(obj) ==
  LET indices == {i \in 1..Len(obj) : IsArrayIndex(obj[i].key)}
  IN AscendingIndices(obj, indices)
       \o SelectSeq(obj, LAMBDA e : ~IsArrayIndex(e.key))

\* ------------------------------------------------------------------------
\* EnvDoctorError
\* ------------------------------------------------------------------------
Issue(key, kind, message) == [key |-> key, kind |-> kind, message |-> message]

\* the message is the header and one line "- ${i.key}: ${i.message}" per
\* issue, joined by "\n": kept as the sequence of its lines
EnvDoctorError(issues) ==
  [name |-> "EnvDoctorError",
   issues |-> issues,
   message |-> <<[key |-> <<>>, message |-> Msg("ENV validation failed", <<>>, <<>>)]>>
                 \o [i \in 1..Len(issues) |->
                       [key |-> issues[i].key, message |-> issues[i].message]]]

NoError == [name |-> "", issues |-> <<>>, message |-> <<>>]

\* ------------------------------------------------------------------------
\* validateAndParse: the body of the loop for one key
\* ------------------------------------------------------------------------
\* what one iteration does: the issue it pushes (if any) and the value it
\* assigns to out[key] (if any)
Pushed(kind, message, li) ==
  [issue |-> TRUE, kind |-> kind, message |-> message,
   assigned |-> FALSE, value |-> Undef, li |-> li]
Assigned(value, li) ==
  [issue |-> FALSE, kind |-> "", message |-> NoMsg,
   assigned |-> TRUE, value |-> value, li |-> li]

\* variant: only undefined counts as missing
isMissingUndefinedOnly(raw) == raw = Undef

\* treat undefined or empty string as "missing"
isMissing(raw) == raw = Undef \/ raw = Str(<<>>)

\* variant: optional is looked at before the default
resolveMissingOptionalFirst(spec, li) ==
  IF spec.optional THEN Assigned(Undef, li)
  ELSE IF spec.defaultValue # Undef THEN Assigned(spec.defaultValue, li)
  ELSE Pushed("missing", Msg("missing required environment variable", <<>>, <<>>), li)

\* variant: optional is not looked at
resolveMissingIgnoringOptional(spec, li) ==
  IF spec.defaultValue # Undef THEN Assigned(spec.defaultValue, li)
  ELSE Pushed("missing", Msg("missing required environment variable", <<>>, <<>>), li)

\* variant: the missing value is reported with kind "invalid"
resolveMissingAsInvalid(spec, li) ==
  IF spec.defaultValue # Undef THEN Assigned(spec.defaultValue, li)
  ELSE IF spec.optional THEN Assigned(Undef, li)
  ELSE Pushed("invalid", Msg("missing required environment variable", <<>>, <<>>), li)

\* variant: an optional key without a value is skipped, with no entry in out
resolveMissingSkipped(spec, li) ==
  IF spec.defaultValue # Undef THEN Assigned(spec.defaultValue, li)
  ELSE IF spec.optional THEN [Assigned(Undef, li) EXCEPT !.assigned = FALSE]
  ELSE Pushed("missing", Msg("missing required environment variable", <<>>, <<>>), li)

\* raw is missing: the default, undefined for an optional key, or an issue
resolveMissing(spec, li) ==
  IF spec.defaultValue # Undef THEN Assigned(spec.defaultValue, li)
  ELSE IF spec.optional THEN Assigned(Undef, li)
  ELSE Pushed("missing", Msg("missing required environment variable", <<>>, <<>>), li)

\* primitives: out[key] = parseByType(spec.kind, raw), or the catch
primitiveParsed(parsed) ==
  IF parsed.ok THEN Assigned(parsed.value, parsed.li)
  ELSE Pushed("invalid", parsed.message, parsed.li)

\* variant: the enum comparison trims raw and ignores letter case
resolvePresentFolded(spec, raw, li) ==
  IF spec.kind = S_enum
  THEN IF ~(\E i \in 1..Len(spec.values) :
              ToLowerCase(spec.values[i].s) = ToLowerCase(Trim(raw)))
       THEN Pushed("invalid",
                   Msg("expected one of [${spec.values.join(\", \")}], got \"${raw}\"",
                       Join([i \in 1..Len(spec.values) |-> spec.values[i].s], <<",", " ">>),
                       raw),
                   li)
       ELSE Assigned(Str(raw), li)
  ELSE IF spec.kind = S_regex
  THEN IF ~RegExpTest(spec.re, raw).matched
       THEN Pushed("invalid", Msg("does not match ${spec.display}", spec.display, <<>>), li)
       ELSE Assigned(Str(raw), li)
  ELSE primitiveParsed(parseByType(spec.kind, raw, li))

\* raw is present: the try block and its catch
resolvePresent(spec, raw, li) ==
  IF spec.kind = S_enum
  THEN IF ~(\E i \in 1..Len(spec.values) : spec.values[i] = Str(raw))
       THEN Pushed("invalid",
                   Msg("expected one of [${spec.values.join(\", \")}], got \"${raw}\"",
                       Join([i \in 1..Len(spec.values) |-> spec.values[i].s], <<",", " ">>),
                       raw),
                   li)
       ELSE Assigned(Str(raw), li)
  ELSE IF spec.kind = S_regex
  THEN IF ~RegExpTest(spec.re, raw).matched
       THEN Pushed("invalid", Msg("does not match ${spec.display}", spec.display, <<>>), li)
       ELSE Assigned(Str(raw), li)
  ELSE primitiveParsed(parseByType(spec.kind, raw, li))

\* variant: raw is looked at before normalizeSpec's failure is
resolveNormalizedMissingFirst(spec, raw) ==
  IF isMissing(raw)
  THEN IF spec.ok THEN resolveMissing(spec.spec, spec.li)
       ELSE Pushed("missing", Msg("missing required environment variable", <<>>, <<>>),
                   spec.li)
  ELSE IF ~spec.ok THEN Pushed("invalid", spec.message, spec.li)
  ELSE resolvePresent(spec.spec, raw.s, spec.li)

\* the iteration, given what normalizeSpec(schemaValue) gave
resolveNormalized(spec, raw) ==
  IF ~spec.ok THEN Pushed("invalid", spec.message, spec.li)
  ELSE IF isMissing(raw) THEN resolveMissing(spec.spec, spec.li)
  ELSE resolvePresent(spec.spec, raw.s, spec.li)

\* one iteration of the loop over Object.entries(schema), entered with
\* EMAIL_RE.lastIndex = li
resolveKey(schemaValue, raw, li) ==
  resolveNormalized(normalizeSpec(schemaValue, li), raw)

\* ------------------------------------------------------------------------
\* State
\* ------------------------------------------------------------------------
VARIABLES
  schema,       \* validateAndParse's schema argument: an object of declarations
  env,          \* its env argument: key -> string or undefined
  pc,           \* where the call is: "start", "loop", "returned", "thrown"
  entries,      \* Object.entries(schema), the sequence the for loop walks
  idx,          \* the position of the loop in entries
  issues,       \* const issues: EnvDoctorIssue[]
  out,          \* const out: Record<string, unknown>
  result,       \* what the caller gets: the returned object or the thrown error
  declaration,  \* normalizeSpec's schemaValue argument, when called on its own
  normalized,   \* the successive normalizeSpec(declaration) calls: what each was
                \* given and what it gave
  lastIndex,    \* EMAIL_RE.lastIndex, the one piece of module-level state
  parseType,    \* parseByType's type argument, when called on its own
  parseRaw,     \* its raw argument
  parsed,       \* what the successive parseByType(parseType, parseRaw) calls gave
  earlier,      \* the validateAndParse calls already finished: what each was
                \* given and what it gave
  argv,         \* runCli's argv argument
  files,        \* the file system: path -> content, or no file
  processEnv,   \* process.env
  runs          \* the successive runCli(argv, io) calls: exit code, what io
                \* was given, the files before and after

vars ==
  <<schema, env, pc, entries, idx, issues, out, result, declaration, normalized,
    lastIndex, parseType, parseRaw, parsed, earlier, argv, files, processEnv, runs>>
parserVars == <<parseType, parseRaw, parsed>>
runnerVars == <<schema, env, pc, entries, idx, issues, out, result>>
cliVars == <<argv, files, processEnv, runs>>

\* no command line is being run
NoCli ==
  /\ argv = <<>>
  /\ files = <<>>
  /\ processEnv = <<>>
  /\ runs = <<>>

\* ------------------------------------------------------------------------
\* Inputs
\* ------------------------------------------------------------------------
KeyA == <<"A">>
KeyB == <<"B">>
KeyNames == {KeyA, KeyB, <<"2">>, <<"1">>}

\* sequences of n distinct key names
KeyOrders(n) ==
  {ks \in [1..n -> KeyNames] : \A i, j \in 1..n : i # j => ks[i] # ks[j]}

T_wat == <<"w", "a", "t">>
T_email1 == <<"a", "@", "b", ".", "c", "o">>
T_email2 == <<" ", "a", "@", "b", ".", "c", "o", " ">>
T_url1 == <<"a", ":", "b">>
T_url2 == <<"h", "t", "t", "p", ":", "/", "/", "a", ".", "b">>
T_NaN == <<"N", "a", "N">>

\* the declarations and raw values of the multi-key schemas
SampleDecls ==
  {StringDecl(S_number), StringDecl(S_boolean \o <<"?">>), StringDecl(T_wat),
   WithDefault(PrimitiveDecl(S_number), Num(7))}
SampleRaws == {Undef, Str(<<>>), Str(<<"1">>), Str(<<"a">>)}

\* every string over RawAlphabet of at most MaxRawLen characters
RawAlphabet == {"1", " ", "a", "y"}
ShortStrings == UNION {[1..n -> RawAlphabet] : n \in 0..MaxRawLen}

LongStrings ==
  {<<"0">>, <<"n">>, <<"A">>, <<"Y">>, <<"-", "1">>, <<"0", "1">>, S_true, S_null,
   <<"O", "f", "f">>, <<"y", "a">>, <<"a", "a", "a">>, <<" ", "1", "7", " ">>,
   S_Infinity, T_NaN, T_email1, T_email2, T_url1, T_url2, <<"h", "t", "t", "p", ":", "/", "/">>}

\* boolean tokens in several letter cases and with spaces around, texts that
\* are no token, and signed and unsigned numerals
TokenStrings ==
  TrueTokens \cup FalseTokens
    \cup {<<"T", "R", "U", "E">>, <<"T", "r", "u", "e">>, <<"F", "a", "l", "s", "E">>,
          <<"Y", "e", "s">>, <<"N", "O">>, <<"O", "N">>, <<"o", "f", "F">>, <<"N">>,
          <<" ", "t", "r", "u", "e", " ">>, <<"o", "n", " ">>, <<" ", "n", "o">>,
          <<"t", "r", "u">>, <<"y", "e", "s", "s">>, <<"2">>, <<"t", " ", "r", "u", "e">>,
          <<" ", "3", "0", "0", "0", " ">>, <<"+", "7">>, <<"-", "0", "1", "2">>,
          <<"a", "b", "c">>, <<"-", "I", "n", "f", "i", "n", "i", "t", "y">>,
          <<"1", " ", "1">>, <<"-", " ", "1">>, <<"+", "-", "1">>, <<"1", "-">>}

\* the raw values of the one-key schemas
WideRaws == {Undef} \cup {Str(s) : s \in ShortStrings \cup LongStrings}

StringDecls ==
  {StringDecl(s \o q) :
     s \in allowed \cup {<<>>, T_wat, S_enum, <<"N", "u", "m", "b", "e", "r">>,
                         <<" ">> \o S_number, S_url \o <<" ">>},
     q \in {<<>>, <<"?">>, <<"?", "?">>}}

OtherDecls ==
  {OtherDecl("null"), OtherDecl("array"), OtherDecl("number"), EmptyObjectDecl,
   [EmptyObjectDecl EXCEPT !.type = Str(T_wat)],
   [EmptyObjectDecl EXCEPT !.type = Num(1)]}

\* the default values tried on every primitive object declaration
DefaultValues ==
  {Undef, Null, Str(<<>>), Str(<<"a">>), Str(<<"1">>), Str(<<" ">>), Str(<<"y">>),
   Str(T_NaN), Str(T_email2), Str(T_url1), Num(0), Num(7), NaN, Infinity(1),
   Bool(TRUE), Bool(FALSE), PlainObject}

PrimitiveDecls ==
  {PrimitiveDecl(type) : type \in allowed}
    \cup {WithDefault(PrimitiveDecl(type), def) : type \in allowed, def \in DefaultValues}

EnumValues ==
  {ArrayOf(<<Str(<<"a">>), Str(<<"y">>)>>), ArrayOf(<<Str(<<"a">>), Str(<<"a">>)>>),
   ArrayOf(<<Str(<<"a">>), Num(1)>>), ArrayOf(<<>>), NotArray}

EnumDecls ==
  LET bare == {[EmptyObjectDecl EXCEPT !.type = Str(S_enum), !.values = v] : v \in EnumValues}
  IN bare \cup {WithDefault(d, def) :
                  d \in bare, def \in {Undef, Str(<<"a">>), Str(<<"1">>), Num(1)}}

RegexDecls ==
  LET bare == {RegexDecl(p, f) :
                 p \in {Str(P_a), Str(P_anchored), Str(P_unterminated), Str(<<>>), Undef},
                 f \in {Undef, Str(<<>>), Str(<<"g">>), Str(<<"y">>), Str(<<"i">>),
                        Str(<<"g", "g">>), Num(1)}}
  IN bare \cup {WithDefault(d, def) :
                  d \in bare,
                  def \in {Undef, Str(<<"a">>), Str(<<"y", "a">>), Str(<<"y">>), Num(1)}}

ObjectDecls ==
  {WithOptional(d, o) :
     d \in PrimitiveDecls \cup EnumDecls \cup RegexDecls,
     o \in {Undef, Bool(TRUE), Bool(FALSE)}}

\* object declarations of the three kinds with metadata of right and wrong types
MetaDecls ==
  {WithMeta(d, description, example, secret) :
     d \in {PrimitiveDecl(S_string), EnumDecl(<<Str(<<"a">>), Str(<<"y">>)>>),
            RegexDecl(Str(P_a), Undef)},
     description \in {Undef, Str(<<"a">>), Num(1)},
     example \in {Undef, Str(<<"a">>), Num(1)},
     secret \in {Undef, Bool(TRUE), Bool(FALSE), Str(<<"y">>)}}

\* the declarations of the one-key schemas, and of normalizeSpec called alone
WideDecls == StringDecls \cup OtherDecls \cup ObjectDecls \cup MetaDecls

\* ------------------------------------------------------------------------
\* validateAndParse as a state machine
\* ------------------------------------------------------------------------
NoResult == [kind |-> "none", value |-> <<>>, error |-> NoError]

\* parseByType is not being called on its own
NotParsing ==
  /\ parseType = <<>>
  /\ parseRaw = <<>>
  /\ parsed = <<>>

\* the env that holds rs[i] for the key ks[i] and x for every other name
EnvOf(ks, rs, x) ==
  [k \in KeyNames |->
     IF \E i \in DOMAIN ks : ks[i] = k
     THEN rs[CHOOSE i \in DOMAIN ks : ks[i] = k]
     ELSE x]

\* a schema of up to MaxKeys keys, and an env that may hold other names
InitSchemas ==
  \E n \in 0..MaxKeys :
    \E ks \in KeyOrders(n), ds \in [1..n -> SampleDecls], rs \in [1..n -> SampleRaws],
       x \in {Undef, Str(<<"1">>)} :
      /\ schema = [i \in 1..n |-> [key |-> ks[i], value |-> ds[i]]]
      /\ env = EnvOf(ks, rs, x)

\* a schema of one key, over every declaration shape and raw value
InitOneKey ==
  \E d \in WideDecls, r \in WideRaws :
    /\ schema = <<[key |-> KeyA, value |-> d]>>
    /\ env = [k \in KeyNames |-> IF k = KeyA THEN r ELSE Undef]

Init ==
  /\ InitSchemas \/ InitOneKey
  /\ pc = "start"
  /\ entries = <<>>
  /\ idx = 0
  /\ issues = <<>>
  /\ out = <<>>
  /\ result = NoResult
  /\ declaration = OtherDecl("undefined")
  /\ normalized = <<>>
  /\ lastIndex = 0
  /\ NotParsing
  /\ earlier = <<>>
  /\ NoCli

\* entry: the two locals and the entries the loop will walk
Call ==
  /\ pc = "start"
  /\ pc' = "loop"
  /\ entries' = ObjectEntries(schema)
  /\ idx' = 1
  /\ issues' = <<>>
  /\ out' = <<>>
  /\ UNCHANGED <<schema, env, result, declaration, normalized, lastIndex, parserVars, earlier, cliVars>>

\* variant: a loop that stops at the first issue
MoreEntriesFailFast == idx <= Len(entries) /\ issues = <<>>

\* the for loop has another entry
MoreEntries == idx <= Len(entries)

\* one iteration: for (const [key, schemaValue] of Object.entries(schema))
Iteration(key, done) ==
  /\ issues' = IF done.issue
               THEN Append(issues, Issue(key, done.kind, done.message))
               ELSE issues
  /\ out' = IF done.assigned THEN ObjectSet(out, key, done.value) ELSE out
  /\ lastIndex' = done.li

IterateKey ==
  /\ pc = "loop"
  /\ MoreEntries
  /\ Iteration(entries[idx].key,
               resolveKey(entries[idx].value, env[entries[idx].key], lastIndex))
  /\ idx' = idx + 1
  /\ UNCHANGED <<schema, env, pc, entries, result, declaration, normalized, parserVars, earlier, cliVars>>

\* variant: a single issue is let through
hasIssuesSeveral == Len(issues) > 1

\* if (issues.length > 0)
hasIssues == Len(issues) > 0

\* throw new EnvDoctorError(issues)
Throw ==
  /\ pc = "loop"
  /\ ~MoreEntries
  /\ hasIssues
  /\ pc' = "thrown"
  /\ result' = [kind |-> "thrown", value |-> <<>>, error |-> EnvDoctorError(issues)]
  /\ UNCHANGED <<schema, env, entries, idx, issues, out, declaration, normalized,
                 lastIndex, parserVars, earlier, cliVars>>

\* return out
Return ==
  /\ pc = "loop"
  /\ ~MoreEntries
  /\ ~hasIssues
  /\ pc' = "returned"
  /\ result' = [kind |-> "returned", value |-> out, error |-> NoError]
  /\ UNCHANGED <<schema, env, entries, idx, issues, out, declaration, normalized,
                 lastIndex, parserVars, earlier, cliVars>>

Next == Call \/ IterateKey \/ Throw \/ Return

Spec == Init /\ [][Next]_vars

\* ------------------------------------------------------------------------
\* normalizeSpec called on its own, repeatedly on one declaration
\* ------------------------------------------------------------------------
InitNormalize ==
  /\ declaration \in WideDecls
  /\ normalized = <<>>
  /\ lastIndex = 0
  /\ NotParsing
  /\ schema = <<>>
  /\ env = [k \in KeyNames |-> Undef]
  /\ pc = "normalize"
  /\ entries = <<>>
  /\ idx = 0
  /\ issues = <<>>
  /\ out = <<>>
  /\ result = NoResult
  /\ earlier = <<>>
  /\ NoCli

\* normalizeSpec(declaration): the declaration is read, never written
Normalization(given, spec) ==
  /\ normalized' = Append(normalized, [declaration |-> given, spec |-> spec])
  /\ lastIndex' = spec.li

CallNormalizeSpec ==
  /\ pc = "normalize"
  /\ Len(normalized) < MaxCalls
  /\ Normalization(declaration, normalizeSpec(declaration, lastIndex))
  /\ UNCHANGED <<declaration, runnerVars, parserVars, earlier, cliVars>>

NextNormalize == CallNormalizeSpec

SpecNormalize == InitNormalize /\ [][NextNormalize]_vars

\* ------------------------------------------------------------------------
\* parseByType called on its own, repeatedly on one type and raw string
\* ------------------------------------------------------------------------
InitParse ==
  /\ \/ parseType \in allowed \cup {T_wat} /\ parseRaw \in ShortStrings \cup LongStrings
     \/ parseType \in {S_boolean, S_number} /\ parseRaw \in TokenStrings
  /\ parsed = <<>>
  /\ lastIndex = 0
  /\ declaration = OtherDecl("undefined")
  /\ normalized = <<>>
  /\ schema = <<>>
  /\ env = [k \in KeyNames |-> Undef]
  /\ pc = "parse"
  /\ entries = <<>>
  /\ idx = 0
  /\ issues = <<>>
  /\ out = <<>>
  /\ result = NoResult
  /\ earlier = <<>>
  /\ NoCli

\* parseByType(parseType, parseRaw)
Parse(given) ==
  /\ parsed' = Append(parsed, given)
  /\ lastIndex' = given.li

CallParseByType ==
  /\ pc = "parse"
  /\ Len(parsed) < MaxCalls
  /\ Parse(parseByType(parseType, parseRaw, lastIndex))
  /\ UNCHANGED <<parseType, parseRaw, declaration, normalized, runnerVars, earlier, cliVars>>

NextParse == CallParseByType

SpecParse == InitParse /\ [][NextParse]_vars

\* ------------------------------------------------------------------------
\* validateAndParse called again with the same schema and env
\* ------------------------------------------------------------------------
AgainDecls ==
  {StringDecl(S_email), StringDecl(S_number \o <<"?">>),
   WithDefault(RegexDecl(Str(P_a), Str(<<"g">>)), Str(<<"a">>))}
AgainRaws == {Undef, Str(T_email1), Str(<<"a">>)}

InitAgain ==
  /\ \E n \in 1..MaxKeys :
       \E ks \in KeyOrders(n), ds \in [1..n -> AgainDecls], rs \in [1..n -> AgainRaws] :
         /\ schema = [i \in 1..n |-> [key |-> ks[i], value |-> ds[i]]]
         /\ env = EnvOf(ks, rs, Str(T_email1))
  /\ pc = "start"
  /\ entries = <<>>
  /\ idx = 0
  /\ issues = <<>>
  /\ out = <<>>
  /\ result = NoResult
  /\ declaration = OtherDecl("undefined")
  /\ normalized = <<>>
  /\ lastIndex = 0
  /\ NotParsing
  /\ earlier = <<>>
  /\ NoCli

\* the caller keeps what the call gave and calls again with the same arguments
CallAgain ==
  /\ pc \in {"returned", "thrown"}
  /\ Len(earlier) + 1 < MaxCalls
  /\ earlier' = Append(earlier, [schema |-> schema, env |-> env, result |-> result])
  /\ pc' = "start"
  /\ UNCHANGED <<schema, env, entries, idx, issues, out, result, declaration, normalized,
                 lastIndex, parserVars, cliVars>>

NextAgain == Call \/ IterateKey \/ Throw \/ Return \/ CallAgain

SpecAgain == InitAgain /\ [][NextAgain]_vars

\* ------------------------------------------------------------------------
\* The command line
\* ------------------------------------------------------------------------
\* String.prototype.startsWith, indexOf, slice, split
StartsAt(s, sep, i) == i + Len(sep) <= Len(s) /\ SubSeq(s, i + 1, i + Len(sep)) = sep
StartsWith(s, prefix) == StartsAt(s, prefix, 0)
IndexOf(s, sep) ==
  IF \E i \in 0..Len(s) : StartsAt(s, sep, i)
  THEN Min({i \in 0..Len(s) : StartsAt(s, sep, i)})
  ELSE -1
Slice(s, from) == SubSeq(s, from + 1, Len(s))
UpTo(s, sep) == IF IndexOf(s, sep) < 0 THEN s ELSE SubSeq(s, 1, IndexOf(s, sep))

\* a.split("=", 2)[1], for an a that holds a "="
SplitSecond(a) == UpTo(Slice(a, IndexOf(a, <<"=">>) + 1), <<"=">>)

\* the concatenation of a sequence of strings
Concat(parts) == Join(parts, <<>>)

\* JSON.stringify of a string: quoted, with ", \ and the control characters
\* escaped
JsonEscape(c) ==
  CASE c = "\"" -> <<"\\", "\"">>
    [] c = "\\" -> <<"\\", "\\">>
    [] c = "\n" -> <<"\\", "n">>
    [] c = "\r" -> <<"\\", "r">>
    [] c = "\t" -> <<"\\", "t">>
    [] OTHER -> <<c>>
JsonQuote(s) == <<"\"">> \o Concat([i \in 1..Len(s) |-> JsonEscape(s[i])]) \o <<"\"">>

\* ------------------------------------------------------------------------
\* parseArgs
A_check == <<"c", "h", "e", "c", "k">>
A_generate == <<"g", "e", "n", "e", "r", "a", "t", "e">>
A_help == <<"h", "e", "l", "p">>
A_pretty == <<"p", "r", "e", "t", "t", "y">>
A_json == <<"j", "s", "o", "n">>
A_github == <<"g", "i", "t", "h", "u", "b">>
A_update == <<"u", "p", "d", "a", "t", "e">>
A_create == <<"c", "r", "e", "a", "t", "e">>

isCheckOutputFormat(value) == value \in {Str(A_pretty), Str(A_json), Str(A_github)}

\* rest[i], undefined past the end
ArgAt(rest, i) == IF i <= Len(rest) THEN Str(rest[i]) ELSE Undef

\* the options before any argument is read
DefaultOptions ==
  [cmd |-> Undef, schemaPath |-> Undef, envFile |-> Undef, checkFormat |-> A_pretty,
   invalidCheckFormat |-> Undef, useDotenv |-> TRUE, outFile |-> Undef, mode |-> Undef,
   useDefaults |-> TRUE, commentTypes |-> FALSE, commentDocs |-> FALSE,
   exampleValues |-> FALSE]

\* --format: a known name is taken, any other is kept as the invalid one
withFormat(opts, f, shown) ==
  IF isCheckOutputFormat(f) THEN [opts EXCEPT !.checkFormat = f.s]
  ELSE [opts EXCEPT !.invalidCheckFormat = Str(shown)]

\* --mode: update and create are taken, anything else is ignored
withMode(opts, m) ==
  IF m \in {Str(A_update), Str(A_create)} THEN [opts EXCEPT !.mode = m] ELSE opts

\* the arguments that take the next one as their value
TakesNext == {<<"-", "-", "s", "c", "h", "e", "m", "a">>, <<"-", "-", "e", "n", "v", "-", "f", "i", "l", "e">>, <<"-", "-", "f", "o", "r", "m", "a", "t">>, <<"-", "-", "o", "u", "t">>, <<"-", "-", "m", "o", "d", "e">>}

\* one step of the loop: the options after argument a, followed by next
withArg(opts, a, next) ==
  IF a = <<"-", "-", "s", "c", "h", "e", "m", "a">> THEN [opts EXCEPT !.schemaPath = next]
  ELSE IF StartsWith(a, <<"-", "-", "s", "c", "h", "e", "m", "a", "=">>) THEN [opts EXCEPT !.schemaPath = Str(SplitSecond(a))]
  ELSE IF a = <<"-", "-", "e", "n", "v", "-", "f", "i", "l", "e">> THEN [opts EXCEPT !.envFile = next]
  ELSE IF StartsWith(a, <<"-", "-", "e", "n", "v", "-", "f", "i", "l", "e", "=">>) THEN [opts EXCEPT !.envFile = Str(SplitSecond(a))]
  ELSE IF a = <<"-", "-", "f", "o", "r", "m", "a", "t">> THEN withFormat(opts, next, ToStringJS(next))
  ELSE IF StartsWith(a, <<"-", "-", "f", "o", "r", "m", "a", "t", "=">>)
  THEN withFormat(opts, Str(Slice(a, 9)), Slice(a, 9))
  ELSE IF a = <<"-", "-", "n", "o", "-", "d", "o", "t", "e", "n", "v">> THEN [opts EXCEPT !.useDotenv = FALSE]
  ELSE IF a = <<"-", "-", "o", "u", "t">> THEN [opts EXCEPT !.outFile = next]
  ELSE IF StartsWith(a, <<"-", "-", "o", "u", "t", "=">>) THEN [opts EXCEPT !.outFile = Str(SplitSecond(a))]
  ELSE IF a = <<"-", "-", "m", "o", "d", "e">> THEN withMode(opts, next)
  ELSE IF StartsWith(a, <<"-", "-", "m", "o", "d", "e", "=">>) THEN withMode(opts, Str(SplitSecond(a)))
  ELSE IF a = <<"-", "-", "n", "o", "-", "d", "e", "f", "a", "u", "l", "t", "s">> THEN [opts EXCEPT !.useDefaults = FALSE]
  ELSE IF a = <<"-", "-", "c", "o", "m", "m", "e", "n", "t", "-", "t", "y", "p", "e", "s">> THEN [opts EXCEPT !.commentTypes = TRUE]
  ELSE IF a = <<"-", "-", "c", "o", "m", "m", "e", "n", "t", "-", "d", "o", "c", "s">> THEN [opts EXCEPT !.commentDocs = TRUE]
  ELSE IF a = <<"-", "-", "e", "x", "a", "m", "p", "l", "e", "-", "v", "a", "l", "u", "e", "s">> THEN [opts EXCEPT !.exampleValues = TRUE]
  ELSE opts

RECURSIVE parseRest(_, _, _)
parseRest(rest, i, opts) ==
  IF i > Len(rest) THEN opts
  ELSE parseRest(rest, IF rest[i] \in TakesNext THEN i + 2 ELSE i + 1,
                 withArg(opts, rest[i], ArgAt(rest, i + 1)))

parseArgs(args) ==
  parseRest(IF args = <<>> THEN <<>> ELSE Tail(args), 1,
            [DefaultOptions EXCEPT !.cmd = ArgAt(args, 1)])

\* ------------------------------------------------------------------------
\* Files. A file is the JSON document it holds (a schema file) or its text,
\* kept as text.split("\n"): the lines, the last one empty when the text
\* ends with a line break. path.resolve(process.cwd(), p) names the same file
\* as p for the plain names used here.
NoDoc == [value |-> Undef, props |-> <<>>]
NoFile == [kind |-> "none", doc |-> NoDoc, text |-> <<>>]
JsonFile(value, props) ==
  [kind |-> "json", doc |-> [value |-> value, props |-> props], text |-> <<>>]
TextFile(segments) == [kind |-> "text", doc |-> NoDoc, text |-> segments]

\* fs.existsSync
existsSync(fs, p) == p \in DOMAIN fs /\ fs[p].kind # "none"

\* obj[key], undefined for a key obj does not hold
Lookup(obj, key) == IF ObjectHas(obj, key) THEN ObjectGet(obj, key) ELSE Undef

\* the text of a file that holds text; JSON.parse of it
TextOf(segments) == Join(segments, <<"\n">>)
ParsedText(r) == [ok |-> r.ok, doc |-> [value |-> r.value, props |-> <<>>]]
JSONParseFile(content) ==
  CASE content.kind = "json" -> [ok |-> TRUE, doc |-> content.doc]
    [] content.kind = "text" -> ParsedText(JSONParse(TextOf(content.text)))

\* ------------------------------------------------------------------------
\* loadSchema
Loaded(json, li) == [ok |-> TRUE, json |-> json, message |-> NoMsg, li |-> li]
LoadFailed(m, li) == [ok |-> FALSE, json |-> <<>>, message |-> m, li |-> li]

\* for (const [k, v] of Object.entries(json)) normalizeSpec(v), from entry i
RECURSIVE validateEntries(_, _, _, _)
validatedEntry(json, es, i, ns) ==
  IF ~ns.ok
  THEN LoadFailed(Msg("Invalid schema value for \"${k}\": ${String(e)}", es[i].key, <<>>),
                  ns.li)
  ELSE validateEntries(json, es, i + 1, ns.li)
validateEntries(json, es, i, li) ==
  IF i > Len(es) THEN Loaded(json, li)
  ELSE validatedEntry(json, es, i, normalizeSpec(es[i].value, li))

\* variant: an array passes for an object
loadParsedArrays(p, li) ==
  IF ~p.ok THEN LoadFailed(Msg("SyntaxError: JSON.parse", <<>>, <<>>), li)
  ELSE IF ~ToBoolean(p.doc.value) \/ TypeOf(p.doc.value) # "object"
  THEN LoadFailed(Msg("Schema must be a JSON object of key -> spec.", <<>>, <<>>), li)
  ELSE validateEntries(p.doc.props, ObjectEntries(p.doc.props), 1, li)

loadParsed(p, li) ==
  IF ~p.ok THEN LoadFailed(Msg("SyntaxError: JSON.parse", <<>>, <<>>), li)
  ELSE IF ~ToBoolean(p.doc.value) \/ TypeOf(p.doc.value) # "object"
            \/ p.doc.value.t = "array"
  THEN LoadFailed(Msg("Schema must be a JSON object of key -> spec.", <<>>, <<>>), li)
  ELSE validateEntries(p.doc.props, ObjectEntries(p.doc.props), 1, li)

loadSchema(fs, schemaPath, li) ==
  IF ~existsSync(fs, schemaPath)
  THEN LoadFailed(Msg("ENOENT: no such file or directory, open '${path}'", schemaPath, <<>>),
                  li)
  ELSE loadParsed(JSONParseFile(fs[schemaPath]), li)

\* ------------------------------------------------------------------------
\* dotenv.parse, line by line. Its LINE pattern is
\*   ^\s*(?:export\s+)?([\w.-]+)(?:\s*=\s*?|:\s+?)
\*    (\s*'(?:\\'|[^'])*'|\s*"(?:\\"|[^"])*"|\s*`(?:\\`|[^`])*`|[^#\r\n]+)?
\*    \s*(?:#.*)?$
\* with the flags m and g. Taking the lines one at a time is exact for texts
\* in which no line is a bare key or a bare export, no line starts with a quote, no quote is
\* left open at the end of its line and a backslash comes only before a
\* quote, as in what formatEnvLine writes.
\* (the back quote, a third quote character of the pattern, is not among the
\* characters of the texts here)
Quotes == {"'", "\""}
IsKeyChar(c) == IsAlpha(c) \/ IsDigit(c) \/ c \in {"_", ".", "-"}

\* the first position from i on that holds no white space (Len + 1 if none)
SkipWs(s, i) ==
  IF \E j \in i..Len(s) : s[j] \notin WhiteSpace
  THEN Min({j \in i..Len(s) : s[j] \notin WhiteSpace})
  ELSE Len(s) + 1

\* the position after the run of key characters that starts at i (i if none)
KeyEnd(s, i) ==
  IF \E j \in i..Len(s) : ~IsKeyChar(s[j])
  THEN Min({j \in i..Len(s) : ~IsKeyChar(s[j])})
  ELSE Len(s) + 1

\* where the value starts when a key starts at p and ends before q: after the
\* "=", or after ":" and one white space; 0 when the line defines nothing
ValueStartAfter(s, p, q) ==
  IF q = p THEN 0
  ELSE IF SkipWs(s, q) <= Len(s) /\ s[SkipWs(s, q)] = "=" THEN SkipWs(s, q) + 1
  ELSE IF q < Len(s) /\ s[q] = ":" /\ s[q + 1] \in WhiteSpace THEN q + 2
  ELSE 0
ValueStart(s, p) == ValueStartAfter(s, p, KeyEnd(s, p))

\* the position after "export" and its white space, when the text from p on
\* starts with them (0 otherwise)
AfterExport(s, p) ==
  IF StartsAt(s, <<"e", "x", "p", "o", "r", "t">>, p - 1) /\ p + 6 <= Len(s) /\ s[p + 6] \in WhiteSpace
  THEN SkipWs(s, p + 6)
  ELSE 0

\* where the key of the line starts (0 when the line defines nothing)
KeyStartFrom(s, p, e) ==
  IF e > 0 /\ ValueStart(s, e) > 0 THEN e
  ELSE IF ValueStart(s, p) > 0 THEN p
  ELSE 0
KeyStart(s) == KeyStartFrom(s, SkipWs(s, 1), AfterExport(s, SkipWs(s, 1)))

\* the closing quote q from position i on, \q being passed over (0 if none)
RECURSIVE CloseAt(_, _, _)
CloseAt(v, i, q) ==
  IF i > Len(v) THEN 0
  ELSE IF v[i] = "\\" /\ i < Len(v) /\ v[i + 1] = q THEN CloseAt(v, i + 2, q)
  ELSE IF v[i] = q THEN i
  ELSE CloseAt(v, i + 1, q)

\* only white space and a comment follow position i
OnlyComment(v, i) == SkipWs(v, i + 1) > Len(v) \/ v[SkipWs(v, i + 1)] = "#"

\* the group of the value: a quoted text, or everything before the first #
QuotedGroup(v, k, close) ==
  IF close > 0 /\ OnlyComment(v, close) THEN SubSeq(v, k, close) ELSE UpTo(v, <<"#">>)
ValueGroup(v, k) ==
  IF k <= Len(v) /\ v[k] \in Quotes THEN QuotedGroup(v, k, CloseAt(v, k + 1, v[k]))
  ELSE UpTo(v, <<"#">>)

\* value.replace(/\\n/g, "\n").replace(/\\r/g, "\r")
RECURSIVE Expanded(_)
Expanded(v) ==
  IF Len(v) < 2 THEN v
  ELSE IF v[1] = "\\" /\ v[2] = "n" THEN <<"\n">> \o Expanded(SubSeq(v, 3, Len(v)))
  ELSE IF v[1] = "\\" /\ v[2] = "r" THEN <<"\r">> \o Expanded(SubSeq(v, 3, Len(v)))
  ELSE <<v[1]>> \o Expanded(Tail(v))

\* the trimmed group without its surrounding quotes, expanded when the group
\* starts with a double quote
Unquoted(t) ==
  IF Len(t) >= 2 /\ t[1] \in Quotes /\ t[Len(t)] = t[1] THEN SubSeq(t, 2, Len(t) - 1)
  ELSE t
ValueOfGroup(t) ==
  IF Len(t) > 0 /\ t[1] = "\"" THEN Expanded(Unquoted(t)) ELSE Unquoted(t)
ValueFrom(v) == ValueOfGroup(Trim(ValueGroup(v, SkipWs(v, 1))))

\* obj after the line s, whose key starts at p (0: the line defines nothing)
withLine(obj, s, p) ==
  IF p = 0 THEN obj
  ELSE ObjectSet(obj, SubSeq(s, p, KeyEnd(s, p) - 1),
                 Str(ValueFrom(Slice(s, ValueStart(s, p) - 1))))

RECURSIVE parseLines(_, _, _)
parseLines(segments, i, obj) ==
  IF i > Len(segments) THEN obj
  ELSE parseLines(segments, i + 1, withLine(obj, segments[i], KeyStart(segments[i])))

dotenvParse(segments) == parseLines(segments, 1, <<>>)

\* ------------------------------------------------------------------------
\* buildEnv: process.env, overridden by what the env file defines
RECURSIVE ObjectAssign(_, _)
ObjectAssign(target, source) ==
  IF source = <<>> THEN target
  ELSE ObjectAssign(ObjectSet(target, source[1].key, source[1].value), Tail(source))

F_env == <<".", "e", "n", "v">>

buildEnvFrom(fs, penv, p) ==
  IF existsSync(fs, p) THEN ObjectAssign(penv, dotenvParse(fs[p].text)) ELSE penv

buildEnv(fs, penv, useDotenv, envFile) ==
  IF ~useDotenv THEN penv
  ELSE buildEnvFrom(fs, penv, IF envFile = Undef THEN F_env ELSE envFile.s)

\* ------------------------------------------------------------------------
\* envDoctor(schema, { loadDotEnv: false, env }): validateAndParse, as the
\* function of its arguments and of EMAIL_RE.lastIndex
RECURSIVE resolveEntries(_, _, _, _, _, _)
resolvedEntry(es, e, i, found, given, done) ==
  resolveEntries(es, e, i + 1,
                 IF done.issue
                 THEN Append(found, Issue(es[i].key, done.kind, done.message))
                 ELSE found,
                 IF done.assigned THEN ObjectSet(given, es[i].key, done.value) ELSE given,
                 done.li)
resolveEntries(es, e, i, found, given, li) ==
  IF i > Len(es) THEN [issues |-> found, out |-> given, li |-> li]
  ELSE resolvedEntry(es, e, i, found, given,
                     resolveKey(es[i].value, Lookup(e, es[i].key), li))

validateAndParse(sch, e, li) == resolveEntries(ObjectEntries(sch), e, 1, <<>>, <<>>, li)

\* ------------------------------------------------------------------------
\* What io.log and io.error are given: the text of a validation line, or the
\* template of any other message with what is put into it
Line(stream, tag, a, text) == [stream |-> stream, tag |-> tag, a |-> a, text |-> text]

\* the text of an issue's message
MessageText(m) ==
  CASE m.tag = "expected number, got \"${raw}\"" ->
         <<"e", "x", "p", "e", "c", "t", "e", "d", " ", "n", "u", "m", "b", "e", "r", ",", " ", "g", "o", "t", " ", "\"">> \o m.a \o <<"\"">>
    [] m.tag = "expected boolean (true/false/1/0/yes/no/on/off), got \"${raw}\"" ->
         <<"e", "x", "p", "e", "c", "t", "e", "d", " ", "b", "o", "o", "l", "e", "a", "n", " ", "(", "t", "r", "u", "e", "/", "f", "a", "l", "s", "e", "/", "1", "/", "0", "/", "y", "e", "s", "/", "n", "o", "/", "o", "n", "/", "o", "f", "f", ")", ",", " ", "g", "o", "t", " ", "\"">> \o m.a \o <<"\"">>
    [] m.tag = "expected json, got \"${raw}\"" ->
         <<"e", "x", "p", "e", "c", "t", "e", "d", " ", "j", "s", "o", "n", ",", " ", "g", "o", "t", " ", "\"">> \o m.a \o <<"\"">>
    [] m.tag = "expected url, got \"${raw}\"" ->
         <<"e", "x", "p", "e", "c", "t", "e", "d", " ", "u", "r", "l", ",", " ", "g", "o", "t", " ", "\"">> \o m.a \o <<"\"">>
    [] m.tag = "expected email, got \"${raw}\"" ->
         <<"e", "x", "p", "e", "c", "t", "e", "d", " ", "e", "m", "a", "i", "l", ",", " ", "g", "o", "t", " ", "\"">> \o m.a \o <<"\"">>
    [] m.tag = "expected one of [${spec.values.join(\", \")}], got \"${raw}\"" ->
         <<"e", "x", "p", "e", "c", "t", "e", "d", " ", "o", "n", "e", " ", "o", "f", " ", "[">> \o m.a \o <<"]", ",", " ", "g", "o", "t", " ", "\"">> \o m.b \o <<"\"">>
    [] m.tag = "does not match ${spec.display}" -> <<"d", "o", "e", "s", " ", "n", "o", "t", " ", "m", "a", "t", "c", "h", " ">> \o m.a
    [] m.tag = "missing required environment variable" ->
         <<"m", "i", "s", "s", "i", "n", "g", " ", "r", "e", "q", "u", "i", "r", "e", "d", " ", "e", "n", "v", "i", "r", "o", "n", "m", "e", "n", "t", " ", "v", "a", "r", "i", "a", "b", "l", "e">>

\* variant: a message without ", got " is left as it is
redactIssueMessageWhenGot(message) ==
  IF IndexOf(message, <<",", " ", "g", "o", "t", " ">>) >= 0
  THEN SubSeq(message, 1, IndexOf(message, <<",", " ", "g", "o", "t", " ">>)) \o <<",", " ", "g", "o", "t", " ", "\"", "<", "r", "e", "d", "a", "c", "t", "e", "d", ">", "\"">>
  ELSE message

redactIssueMessage(message) ==
  IF IndexOf(message, <<",", " ", "g", "o", "t", " ">>) >= 0
  THEN SubSeq(message, 1, IndexOf(message, <<",", " ", "g", "o", "t", " ">>)) \o <<",", " ", "g", "o", "t", " ", "\"", "<", "r", "e", "d", "a", "c", "t", "e", "d", ">", "\"">>
  ELSE <<"i", "n", "v", "a", "l", "i", "d", " ", "v", "a", "l", "u", "e", ",", " ", "g", "o", "t", " ", "\"", "<", "r", "e", "d", "a", "c", "t", "e", "d", ">", "\"">>

secretNormalized(ns) == ns.ok /\ ns.spec.secret = Bool(TRUE)
isSecretKey(sch, key) ==
  IF Lookup(sch, key) = Undef THEN FALSE
  ELSE secretNormalized(normalizeSpec(Lookup(sch, key), 0))

\* variant: the messages of missing issues are redacted too
getIssueMessageAnyKind(issue, sch) ==
  IF isSecretKey(sch, issue.key)
  THEN redactIssueMessage(MessageText(issue.message))
  ELSE MessageText(issue.message)

getIssueMessage(issue, sch) ==
  IF issue.kind = "invalid" /\ isSecretKey(sch, issue.key)
  THEN redactIssueMessage(MessageText(issue.message))
  ELSE MessageText(issue.message)

GithubData(c) ==
  CASE c = "%" -> <<"%", "2", "5">>
    [] c = "\r" -> <<"%", "0", "D">>
    [] c = "\n" -> <<"%", "0", "A">>
    [] OTHER -> <<c>>
escapeGithubCommandData(value) ==
  Concat([i \in 1..Len(value) |-> GithubData(value[i])])

GithubProperty(c) ==
  CASE c = ":" -> <<"%", "3", "A">>
    [] c = "," -> <<"%", "2", "C">>
    [] OTHER -> <<c>>
escapePropertyOfData(value) == Concat([i \in 1..Len(value) |-> GithubProperty(value[i])])
escapeGithubCommandProperty(value) == escapePropertyOfData(escapeGithubCommandData(value))

\* one line per issue
githubLine(key, message) ==
  <<":", ":", "e", "r", "r", "o", "r", " ", "t", "i", "t", "l", "e", "=">> \o escapeGithubCommandProperty(<<"E", "N", "V", " ", "v", "a", "l", "i", "d", "a", "t", "i", "o", "n">>) \o <<":", ":">>
    \o escapeGithubCommandData(key \o <<":", " ">> \o message)

\* JSON.stringify of one issue, of the whole report
jsonIssue(key, kind, message) ==
  <<"{", "\"", "k", "e", "y", "\"", ":">> \o JsonQuote(key) \o <<",", "\"", "k", "i", "n", "d", "\"", ":">> \o JsonQuote(kind)
    \o <<",", "\"", "m", "e", "s", "s", "a", "g", "e", "\"", ":">> \o JsonQuote(message) \o <<"}">>
KindText(kind) == IF kind = "invalid" THEN <<"i", "n", "v", "a", "l", "i", "d">> ELSE <<"m", "i", "s", "s", "i", "n", "g">>
jsonReport(shown) ==
  <<"{", "\"", "e", "r", "r", "o", "r", "\"", ":", "\"", "E", "N", "V", " ", "v", "a", "l", "i", "d", "a", "t", "i", "o", "n", " ", "f", "a", "i", "l", "e", "d", "\"", ",", "\"", "i", "s", "s", "u", "e", "s", "\"", ":", "[">>
    \o Join([i \in 1..Len(shown) |->
               jsonIssue(shown[i].key, KindText(shown[i].kind), shown[i].message)],
            <<",">>)
    \o <<"]", "}">>

\* the header and one line per issue, joined by line breaks
prettyReport(shown) ==
  Join(<<<<"E", "N", "V", " ", "v", "a", "l", "i", "d", "a", "t", "i", "o", "n", " ", "f", "a", "i", "l", "e", "d">>>>
         \o [i \in 1..Len(shown) |-> <<"-", " ">> \o shown[i].key \o <<":", " ">> \o shown[i].message],
       <<"\n">>)

\* the lines of the given format for the issues as they are shown
formatShown(shown, format) ==
  IF format = A_github
  THEN [i \in 1..Len(shown) |-> githubLine(shown[i].key, shown[i].message)]
  ELSE IF format = A_json THEN <<jsonReport(shown)>>
  ELSE <<prettyReport(shown)>>

formatValidationErrorForCli(err, sch, format) ==
  formatShown([i \in 1..Len(err) |->
                 [key |-> err[i].key, kind |-> err[i].kind,
                  message |-> getIssueMessage(err[i], sch)]],
              format)

\* ------------------------------------------------------------------------
\* Array.prototype.sort without a comparator: by UTF-16 code units
CodeUnits ==
  <<"\t", "\n", "\r", " ", "!", "\"", "#", "$", "%", "&", "'", "(",
    ")", "*", "+", ",", "-", ".", "/", "0", "1", "2", "3", "4",
    "5", "6", "7", "8", "9", ":", ";", "<", "=", ">", "?", "@",
    "A", "B", "C", "D", "E", "F", "G", "H", "I", "J", "K", "L",
    "M", "N", "O", "P", "Q", "R", "S", "T", "U", "V", "W", "X",
    "Y", "Z", "[", "\\", "]", "^", "_", "a", "b", "c", "d", "e",
    "f", "g", "h", "i", "j", "k", "l", "m", "n", "o", "p", "q",
    "r", "s", "t", "u", "v", "w", "x", "y", "z", "{", "|", "}",
    "~">>
CodeUnit(c) == CHOOSE i \in DOMAIN CodeUnits : CodeUnits[i] = c

RECURSIVE Before(_, _)
Before(a, b) ==
  IF b = <<>> THEN FALSE
  ELSE IF a = <<>> THEN TRUE
  ELSE IF a[1] # b[1] THEN CodeUnit(a[1]) < CodeUnit(b[1])
  ELSE Before(Tail(a), Tail(b))

RECURSIVE Sorted(_)
Sorted(keys) ==
  IF keys = {} THEN <<>>
  ELSE LET first == CHOOSE k \in keys : \A other \in keys \ {k} : Before(k, other)
       IN <<first>> \o Sorted(keys \ {first})

\* ------------------------------------------------------------------------
\* generate helpers
\* text.replace(/^export\s+/gm, ""), line by line
withoutExport(s) ==
  IF StartsWith(s, <<"e", "x", "p", "o", "r", "t">>) /\ Len(s) > 6 /\ s[7] \in WhiteSpace
  THEN Slice(s, SkipWs(s, 7) - 1)
  ELSE s

readEnvFile(fs, filePath) ==
  IF ~existsSync(fs, filePath) THEN <<>>
  ELSE dotenvParse([i \in 1..Len(fs[filePath].text) |-> withoutExport(fs[filePath].text[i])])

getTypeLabel(spec) == IF spec.shape = "string" THEN spec.str ELSE spec.type.s

defaultToEnvString(x) ==
  CASE x.t \in {"undefined", "null"} -> <<>>
    [] x.t = "string" -> x.s
    [] x.t \in {"number", "boolean"} -> ToStringJS(x)
    [] x.t = "object" -> <<"{", "}">>
    [] x.t = "array" -> <<"[", "]">>

\* variant: only the empty value is quoted
needsQuotingEmptyOnly(v) == v = <<>>

needsQuoting(v) ==
  \/ v = <<>>
  \/ \E i \in 1..Len(v) : v[i] \in WhiteSpace \cup {"#", "\"", "'"}

formatEnvLine(key, value, comment) ==
  key \o <<"=">> \o (IF needsQuoting(value) THEN JsonQuote(value) ELSE value)
    \o (IF ToBoolean(comment) THEN <<" ", "#", " ">> \o comment.s ELSE <<>>)

\* runs of white space, line breaks included, become one space; then trim
RECURSIVE Collapsed(_)
Collapsed(s) ==
  IF s = <<>> THEN <<>>
  ELSE IF s[1] \in WhiteSpace
  THEN <<" ">> \o Collapsed(Slice(s, SkipWs(s, 1) - 1))
  ELSE <<s[1]>> \o Collapsed(Tail(s))
normalizeCommentText(s) == Trim(Collapsed(s))

docLine(prefix, text) == IF text = <<>> THEN <<>> ELSE <<prefix \o text>>
getDocCommentLines(description, example) ==
  (IF TypeOf(description) = "string"
   THEN docLine(<<"#", " ">>, normalizeCommentText(description.s)) ELSE <<>>)
    \o (IF TypeOf(example) = "string"
        THEN docLine(<<"#", " ", "e", "x", "a", "m", "p", "l", "e", ":", " ">>, normalizeCommentText(example.s)) ELSE <<>>)

\* the value written for a key
generatedValue(ns, useDefaults, exampleValues) ==
  IF exampleValues /\ ns.example # Undef THEN ns.example.s
  ELSE IF useDefaults /\ ns.defaultValue # Undef THEN defaultToEnvString(ns.defaultValue)
  ELSE <<>>

\* the lines pushed for a key that existing does not hold
linesOfKey(key, spec, ns, o) ==
  (IF o.commentDocs THEN getDocCommentLines(ns.description, ns.example) ELSE <<>>)
    \o <<formatEnvLine(key, generatedValue(ns, o.useDefaults, o.exampleValues),
                       IF o.commentTypes THEN Str(getTypeLabel(spec)) ELSE Undef)>>

\* variant: a key is skipped only when the file gives it a non-empty value
isExistingNonEmpty(existing, key) == Lookup(existing, key) \notin {Undef, Str(<<>>)}

\* existing[key] !== undefined
isExisting(existing, key) == Lookup(existing, key) # Undef

\* the loop over the sorted keys, from key i: the lines to add, the number of
\* variables added, and whether normalizeSpec threw
RECURSIVE generateKeys(_, _, _, _, _, _, _)
generatedKey(sch, keys, existing, o, i, acc, ns) ==
  IF ~ns.ok THEN [acc EXCEPT !.threw = TRUE, !.message = ns.message, !.li = ns.li]
  ELSE generateKeys(sch, keys, existing, o, i + 1,
                    [acc EXCEPT !.lines = @ \o linesOfKey(keys[i], Lookup(sch, keys[i]),
                                                          ns.spec, o),
                                !.addedVars = @ + 1],
                    ns.li)
generateKeys(sch, keys, existing, o, i, acc, li) ==
  IF i > Len(keys) THEN [acc EXCEPT !.li = li]
  ELSE IF isExisting(existing, keys[i])
  THEN generateKeys(sch, keys, existing, o, i + 1, acc, li)
  ELSE generatedKey(sch, keys, existing, o, i, acc,
                    normalizeSpec(Lookup(sch, keys[i]), li))

NothingAdded == [lines |-> <<>>, addedVars |-> 0, threw |-> FALSE, message |-> NoMsg, li |-> 0]

\* what a call of runCli gives: the exit code, what io was given, the files
Exit(code, io, fs, li) == [code |-> code, io |-> io, files |-> fs, li |-> li]

\* fs.writeFileSync(p, lines.join("\n") + "\n")
writeFileSync(fs, p, lines) == [fs EXCEPT ![p] = TextFile(lines \o <<<<>>>>)]

\* the text with more text after it
appendedText(old, more) ==
  SubSeq(old, 1, Len(old) - 1) \o <<old[Len(old)] \o more[1]>> \o Tail(more)

\* fs.appendFileSync(p, prefix + lines.join("\n") + "\n"), the prefix being
\* a line break when the file exists
appendFileSync(fs, p, lines) ==
  IF existsSync(fs, p)
  THEN [fs EXCEPT ![p] = TextFile(appendedText(fs[p].text, <<<<>>>> \o lines \o <<<<>>>>))]
  ELSE [fs EXCEPT ![p] = TextFile(lines \o <<<<>>>>)]

\* runGenerate once the loop is over
generated(fs, outPath, mode, g) ==
  IF g.threw THEN Exit(2, <<Line("error", g.message.tag, g.message.a, <<>>)>>, fs, g.li)
  ELSE IF g.addedVars = 0
  THEN Exit(0, <<Line("log", "No missing variables. Nothing to generate.", <<>>, <<>>)>>,
            fs, g.li)
  ELSE IF mode = A_create
  THEN Exit(0, <<Line("log", "Created ${outPath} with ${addedVars} variables.",
                      outPath, NatToString(g.addedVars))>>,
            writeFileSync(fs, outPath, g.lines), g.li)
  ELSE Exit(0, <<Line("log", "Updated ${outPath}. Added ${addedVars} missing variables.",
                      outPath, NatToString(g.addedVars))>>,
            appendFileSync(fs, outPath, g.lines), g.li)

\* variant: create mode writes over a file that exists
runGenerateOverwriting(sch, fs, outPath, mode, o, li) ==
  generated(fs, outPath, mode,
            generateKeys(sch, Sorted(ObjectKeys(sch)),
                         IF mode = A_update THEN readEnvFile(fs, outPath) ELSE <<>>,
                         o, 1, NothingAdded, li))

runGenerate(sch, fs, outPath, mode, o, li) ==
  IF mode = A_create /\ existsSync(fs, outPath)
  THEN Exit(2, <<Line("error", "Refusing to overwrite existing file: ${outPath}",
                      outPath, <<>>)>>,
            fs, li)
  ELSE generated(fs, outPath, mode,
                 generateKeys(sch, Sorted(ObjectKeys(sch)),
                              IF mode = A_update THEN readEnvFile(fs, outPath) ELSE <<>>,
                              o, 1, NothingAdded, li))

\* ------------------------------------------------------------------------
\* runCli
HelpWords == {Str(A_help), Str(<<"-", "-", "h", "e", "l", "p">>), Str(<<"-", "h">>)}

\* the check command once the environment has been validated
errorLines(texts) == [i \in 1..Len(texts) |-> Line("error", "validation", <<>>, texts[i])]
checked(sch, fs, format, validated) ==
  IF validated.issues # <<>>
  THEN Exit(1, errorLines(formatValidationErrorForCli(validated.issues, sch, format)),
            fs, validated.li)
  ELSE Exit(0, <<Line("log", "Environment is valid.", <<>>, <<>>)>>, fs, validated.li)

\* the try block, given what loadSchema gave
runLoaded(o, fs, penv, loaded) ==
  IF ~loaded.ok
  THEN Exit(2, <<Line("error", loaded.message.tag, loaded.message.a, <<>>)>>, fs, loaded.li)
  ELSE IF o.cmd = Str(A_check)
  THEN checked(loaded.json, fs, o.checkFormat,
               validateAndParse(loaded.json, buildEnv(fs, penv, o.useDotenv, o.envFile),
                                loaded.li))
  ELSE IF o.cmd = Str(A_generate)
  THEN runGenerate(loaded.json, fs, IF o.outFile = Undef THEN F_env ELSE o.outFile.s,
                   IF o.mode = Undef THEN A_update ELSE o.mode.s, o, loaded.li)
  ELSE Exit(2, <<Line("error", "Unknown command: ${cmd}", o.cmd.s, <<>>)>>, fs, loaded.li)

runParsed(o, fs, penv, li) ==
  IF ~ToBoolean(o.cmd) \/ o.cmd \in HelpWords
  THEN Exit(0, <<Line("log", "env-typed-checker Usage:", <<>>, <<>>)>>, fs, li)
  ELSE IF ~ToBoolean(o.schemaPath)
  THEN Exit(2, <<Line("error", "Missing required option: --schema <file>", <<>>, <<>>)>>,
            fs, li)
  ELSE IF o.cmd = Str(A_check) /\ o.invalidCheckFormat # Undef
  THEN Exit(2, <<Line("error",
                      "Invalid value for --format: \"${invalidCheckFormat}\". Expected: pretty, json, github",
                      o.invalidCheckFormat.s, <<>>)>>,
            fs, li)
  ELSE runLoaded(o, fs, penv, loadSchema(fs, o.schemaPath.s, li))

runCli(args, fs, penv, li) == runParsed(parseArgs(args), fs, penv, li)

\* ------------------------------------------------------------------------
\* runCli as a state machine: the command line is run, and run again
\* ------------------------------------------------------------------------
F_schema == <<"s", ".", "j", "s", "o", "n">>
F_out == <<"o", ".", "e", "n", "v">>
F_other == <<"e", ".", "e", "n", "v">>

KeyAB == <<"A", " ", "B">>

\* the schema files: no file, a text that is no JSON, JSON that is no object,
\* and objects of declarations
SchemaObjects ==
  {<<>>,
   <<[key |-> KeyA, value |-> StringDecl(S_number)]>>,
   <<[key |-> KeyA, value |-> StringDecl(T_wat)]>>,
   <<[key |-> KeyB, value |-> StringDecl(S_number)],
     [key |-> KeyA,
      value |-> WithMeta(WithDefault(PrimitiveDecl(S_string), Str(<<"a", " ", "b">>)),
                         Str(<<"d", " ", "\n", " ", "x">>), Str(<<"e", "#", "\"">>), Undef)]>>,
   <<[key |-> KeyA, value |-> WithMeta(PrimitiveDecl(S_number), Undef, Undef, Bool(TRUE))],
     [key |-> KeyB, value |-> StringDecl(S_number)]>>,
   <<[key |-> KeyA, value |-> WithMeta(RegexDecl(Str(P_anchored), Undef),
                                       Undef, Undef, Bool(TRUE))],
     [key |-> KeyB, value |-> WithMeta(EnumDecl(<<Str(<<"a">>), Str(<<"y">>)>>),
                                       Undef, Str(<<"y">>), Bool(TRUE))]>>,
   <<[key |-> KeyAB, value |-> StringDecl(S_string)]>>,
   <<[key |-> KeyA, value |-> WithDefault(PrimitiveDecl(S_json), PlainObject)],
     [key |-> KeyB, value |-> WithDefault(PrimitiveDecl(S_boolean), Bool(TRUE))]>>}

SchemaFiles ==
  {NoFile, TextFile(<<T_wat>>), JsonFile(Null, <<>>), JsonFile(PlainArray, <<>>),
   JsonFile(Num(1), <<>>)}
    \cup {JsonFile(PlainObject, props) : props \in SchemaObjects}

\* the env files
EnvFiles ==
  {NoFile,
   TextFile(<<<<"A", "=", "1">>, <<>>>>),
   TextFile(<<<<"e", "x", "p", "o", "r", "t", " ", "B", "=", "2">>, <<"#", " ", "c">>, <<"A", "=">>>>),
   TextFile(<<<<"A", " ", "B", "=", "1">>, <<>>>>),
   TextFile(<<<<"A", "=", "x">>, <<"B", "=", "\"", "z", "\"">>, <<>>>>)}

ProcessEnvs ==
  {<<>>,
   <<[key |-> KeyA, value |-> Str(<<"1">>)], [key |-> KeyB, value |-> Str(<<"2">>)]>>,
   <<[key |-> KeyA, value |-> Str(<<"a">>)], [key |-> KeyB, value |-> Str(<<"y">>)]>>}

\* the command lines
SchemaArgs == {<<>>, <<<<"-", "-", "s", "c", "h", "e", "m", "a">>, F_schema>>, <<<<"-", "-", "s", "c", "h", "e", "m", "a", "=", "s", ".", "j", "s", "o", "n">>>>}
FormatArgs ==
  {<<>>, <<<<"-", "-", "f", "o", "r", "m", "a", "t">>, A_json>>, <<<<"-", "-", "f", "o", "r", "m", "a", "t", "=", "g", "i", "t", "h", "u", "b">>>>, <<<<"-", "-", "f", "o", "r", "m", "a", "t", "=", "x", "m", "l">>>>,
   <<<<"-", "-", "f", "o", "r", "m", "a", "t">>>>}
EnvArgs == {<<>>, <<<<"-", "-", "n", "o", "-", "d", "o", "t", "e", "n", "v">>>>, <<<<"-", "-", "e", "n", "v", "-", "f", "i", "l", "e">>, F_other>>}
OutArgs == {<<>>, <<<<"-", "-", "o", "u", "t", "=", "o", ".", "e", "n", "v">>>>}
ModeArgs == {<<>>, <<<<"-", "-", "m", "o", "d", "e">>, A_create>>, <<<<"-", "-", "m", "o", "d", "e", "=", "u", "p", "d", "a", "t", "e">>>>, <<<<"-", "-", "m", "o", "d", "e", "=", "w", "a", "t">>>>}
FlagArgs ==
  {<<>>, <<<<"-", "-", "n", "o", "-", "d", "e", "f", "a", "u", "l", "t", "s">>>>, <<<<"-", "-", "c", "o", "m", "m", "e", "n", "t", "-", "t", "y", "p", "e", "s">>>>,
   <<<<"-", "-", "c", "o", "m", "m", "e", "n", "t", "-", "d", "o", "c", "s">>, <<"-", "-", "e", "x", "a", "m", "p", "l", "e", "-", "v", "a", "l", "u", "e", "s">>>>,
   <<<<"-", "-", "w", "a", "t">>, <<"-", "-", "c", "o", "m", "m", "e", "n", "t", "-", "d", "o", "c", "s">>, <<"-", "-", "c", "o", "m", "m", "e", "n", "t", "-", "t", "y", "p", "e", "s">>>>}

CommandLines ==
  {<<>>, <<A_help>>, <<<<"-", "h">>, <<"-", "-", "s", "c", "h", "e", "m", "a", "=", "s", ".", "j", "s", "o", "n">>>>, <<A_check>>, <<A_generate>>}
    \cup {<<<<"w", "a", "t">>>> \o s : s \in SchemaArgs}
    \cup {<<A_check>> \o s \o f \o e : s \in SchemaArgs \ {<<>>}, f \in FormatArgs, e \in EnvArgs}
    \cup {<<A_generate>> \o s \o o \o m \o f :
            s \in SchemaArgs \ {<<>>}, o \in OutArgs, m \in ModeArgs, f \in FlagArgs}

InitCli ==
  /\ argv \in CommandLines
  /\ \E s \in SchemaFiles, e \in EnvFiles :
       files = (F_schema :> s) @@ (F_env :> e) @@ (F_out :> e) @@ (F_other :> e)
  /\ processEnv \in ProcessEnvs
  /\ runs = <<>>
  /\ lastIndex = 0
  /\ pc = "cli"
  /\ schema = <<>>
  /\ env = [k \in KeyNames |-> Undef]
  /\ entries = <<>>
  /\ idx = 0
  /\ issues = <<>>
  /\ out = <<>>
  /\ result = NoResult
  /\ declaration = OtherDecl("undefined")
  /\ normalized = <<>>
  /\ NotParsing
  /\ earlier = <<>>

\* runCli(argv, io): what it returns, what it gives io, what it leaves on disk
Ran(before, r) ==
  /\ runs' = Append(runs, [code |-> r.code, io |-> r.io, before |-> before,
                           after |-> r.files])
  /\ files' = r.files
  /\ lastIndex' = r.li

RunCli ==
  /\ pc = "cli"
  /\ Len(runs) < MaxCalls
  /\ Ran(files, runCli(argv, files, processEnv, lastIndex))
  /\ UNCHANGED <<argv, processEnv, runnerVars, declaration, normalized, parserVars, earlier>>

NextCli == RunCli

SpecCli == InitCli /\ [][NextCli]_vars


\* ------------------------------------------------------------------------
\* Properties of validateAndParse
\* ------------------------------------------------------------------------
\* the positions in issues of the issues recorded for key k
IssuesFor(k) == {j \in 1..Len(issues) : issues[j].key = k}

\* the entries the loop has been through
Processed == {i \in 1..Len(entries) : i < idx}

\* the call is over
Done == pc \in {"returned", "thrown"}

\* key k fails: its declaration is rejected, its required value is missing,
\* or its present value is invalid
FailedGiven(spec, raw) ==
  \/ ~spec.ok
  \/ spec.ok /\ isMissing(raw) /\ spec.spec.defaultValue = Undef /\ ~spec.spec.optional
  \/ spec.ok /\ ~isMissing(raw) /\ resolvePresent(spec.spec, raw.s, 0).issue

KeyFailed(schemaValue, raw) == FailedGiven(normalizeSpec(schemaValue, 0), raw)

\* the number of issues the thrown error carries for key k
ThrownIssuesFor(k) ==
  Cardinality({j \in 1..Len(result.error.issues) : result.error.issues[j].key = k})

\* C1: every key of the schema is visited even after earlier keys failed:
\* the thrown error carries exactly one issue for each key that failed and
\* none for a key that did not, and a call that returns had no failing key.
EveryFailureReportedOnce ==
  /\ pc = "thrown" =>
       /\ \A i \in 1..Len(schema) :
            ThrownIssuesFor(schema[i].key)
              = IF KeyFailed(schema[i].value, env[schema[i].key]) THEN 1 ELSE 0
       /\ \A j \in 1..Len(result.error.issues) :
            \E i \in 1..Len(schema) : schema[i].key = result.error.issues[j].key
  /\ pc = "returned" =>
       \A i \in 1..Len(schema) : ~KeyFailed(schema[i].value, env[schema[i].key])

\* two keys failed, the first with a rejected declaration or a bad value and
\* the second with a missing value, and both are in the thrown error
TwoFailuresReported ==
  /\ pc = "thrown"
  /\ Len(schema) = 2
  /\ Len(result.error.issues) = 2
  /\ result.error.issues[1].kind = "invalid"
  /\ result.error.issues[2].kind = "missing"

\* the position in the thrown issues of the issue of key k
ThrownPosition(k) ==
  CHOOSE j \in 1..Len(result.error.issues) : result.error.issues[j].key = k

\* C2: the thrown issues, and the lines of the error message, are in the
\* order the failing keys were inserted into the schema, whatever the key
\* names are, integer-like names included.
IssuesInInsertionOrder ==
  pc = "thrown" =>
    \A a, b \in 1..Len(schema) :
      (/\ a < b
       /\ ThrownIssuesFor(schema[a].key) = 1
       /\ ThrownIssuesFor(schema[b].key) = 1)
      => /\ ThrownPosition(schema[a].key) < ThrownPosition(schema[b].key)
         /\ result.error.message[ThrownPosition(schema[a].key) + 1].key = schema[a].key
         /\ result.error.message[ThrownPosition(schema[b].key) + 1].key = schema[b].key

\* C3: a call either returns the object of resolved values or throws one
\* EnvDoctorError, never both; it throws exactly when an issue was recorded,
\* the thrown error carries those issues (at least one), and the values
\* resolved for the keys that succeeded are not handed over.
ReturnsXorThrows ==
  /\ pc = "returned" =>
       /\ result.kind = "returned"
       /\ issues = <<>>
       /\ result.error = NoError
       /\ result.value = out
  /\ pc = "thrown" =>
       /\ result.kind = "thrown"
       /\ Len(issues) > 0
       /\ result.error.name = "EnvDoctorError"
       /\ result.error.issues = issues
       /\ result.value = <<>>
  /\ ~Done => result = NoResult

\* a call that threw although one of its keys had resolved to a value
ThrownWithResolvedValues ==
  /\ pc = "thrown"
  /\ Len(out) > 0
  /\ result.value = <<>>

\* what the call recorded for key k is what the iteration `done` does
SameOutcome(done, k) ==
  /\ done.issue <=> IssuesFor(k) # {}
  /\ \A j \in IssuesFor(k) :
       issues[j].kind = done.kind /\ issues[j].message = done.message
  /\ done.assigned <=> ObjectHas(out, k)
  /\ done.assigned => ObjectGet(out, k) = done.value

\* C4: a key whose raw value is the empty string ends as it would with the
\* key absent from env: the same issue or the same value, for every
\* declaration shape.
EmptyIsAbsent ==
  Done =>
    \A i \in 1..Len(schema) :
      env[schema[i].key] = Str(<<>>)
        => SameOutcome(resolveKey(schema[i].value, Undef, 0), schema[i].key)

\* a key declared with a default and given "" came out as the default
EmptyTookDefault ==
  /\ pc = "returned"
  /\ Len(schema) = 1
  /\ env[schema[1].key] = Str(<<>>)
  /\ schema[1].value.shape = "object"
  /\ schema[1].value.hasDefault
  /\ ObjectHas(out, schema[1].key)
  /\ ObjectGet(out, schema[1].key) = Num(7)

\* what C5 asks of key k, given what normalizeSpec gave for its declaration
RejectionRecorded(spec, k) ==
  ~spec.ok =>
    /\ Cardinality(IssuesFor(k)) = 1
    /\ \A j \in IssuesFor(k) :
         issues[j].kind = "invalid" /\ issues[j].message = spec.message
    /\ ~ObjectHas(out, k)

\* C5: a declaration that normalizeSpec rejects gives exactly one issue of
\* kind "invalid" with the normalizer's message, whatever env holds for the
\* key, no value for the key, and the loop goes on to the remaining keys.
RejectedDeclarationIsOneInvalidIssue ==
  /\ \A i \in Processed :
       RejectionRecorded(normalizeSpec(entries[i].value, 0), entries[i].key)
  /\ Done =>
       \A i \in 1..Len(entries) :
         Cardinality(IssuesFor(entries[i].key))
           + (IF ObjectHas(out, entries[i].key) THEN 1 ELSE 0) = 1

\* the declaration of the first key was rejected although env holds a value
\* for it, and the second key was still resolved
RejectedThenResolved ==
  /\ pc = "thrown"
  /\ Len(entries) = 2
  /\ ~normalizeSpec(entries[1].value, 0).ok
  /\ env[entries[1].key] = Str(<<"1">>)
  /\ issues[1].key = entries[1].key
  /\ ObjectHas(out, entries[2].key)

\* the runtime rule of a kind: what a value resolved for a key of that kind
\* satisfies
PassesRule(spec, v) ==
  CASE spec.kind = S_string -> TypeOf(v) = "string"
    [] spec.kind = S_number -> TypeOf(v) = "number" /\ IsFinite(v)
    [] spec.kind = S_boolean -> TypeOf(v) = "boolean"
    [] spec.kind = S_json -> TRUE
    [] spec.kind = S_url -> TypeOf(v) = "string" /\ URLParses(v.s)
    [] spec.kind = S_email ->
         TypeOf(v) = "string" /\ Trim(v.s) = v.s /\ EmailShape(v.s)
    [] spec.kind = S_enum ->
         TypeOf(v) = "string" /\ \E i \in 1..Len(spec.values) : spec.values[i] = v
    [] spec.kind = S_regex ->
         /\ TypeOf(v) = "string"
         /\ RegExpTest([spec.re EXCEPT !.lastIndex = 0], v.s).matched
    [] OTHER -> FALSE

\* what C6 asks of key k, given its declaration and what normalizeSpec gave
DefaultTaken(decl, spec, k) ==
  /\ (spec.ok /\ spec.spec.defaultValue # Undef) =>
       /\ ObjectHas(out, k)
       /\ ObjectGet(out, k) = spec.spec.defaultValue
       /\ IssuesFor(k) = {}
       /\ PassesRule(spec.spec, ObjectGet(out, k))
  /\ (decl.shape = "object" /\ decl.hasDefault /\ decl.default # Undef) =>
       IF spec.ok
       THEN spec.spec.defaultValue # Undef
       ELSE /\ ~ObjectHas(out, k)
            /\ \A j \in IssuesFor(k) :
                 issues[j].kind = "invalid" /\ issues[j].message = spec.message

\* C6: a key whose normalized declaration has a default and whose raw value
\* is missing resolves to exactly that default with no issue, optional or
\* not; a declared default that is invalid for its kind has failed in
\* normalizeSpec, so the default a key resolves to always passes the rule of
\* its kind and a bad one is reported as the normalizer's "invalid" issue.
DefaultResolvesMissing ==
  \A i \in Processed :
    isMissing(env[entries[i].key])
      => DefaultTaken(entries[i].value, normalizeSpec(entries[i].value, 0),
                      entries[i].key)

\* a key both optional and with a default, absent from env, came out as the
\* default
OptionalTookDefault ==
  /\ pc = "returned"
  /\ Len(schema) = 1
  /\ env[schema[1].key] = Undef
  /\ schema[1].value.shape = "object"
  /\ schema[1].value.optional = Bool(TRUE)
  /\ schema[1].value.hasDefault
  /\ ObjectHas(out, schema[1].key)
  /\ ObjectGet(out, schema[1].key) = Bool(FALSE)

\* what C7 asks of key k, given what normalizeSpec gave for its declaration
UndefinedTaken(spec, k) ==
  (spec.ok /\ spec.spec.optional /\ spec.spec.defaultValue = Undef) =>
    /\ ObjectHas(out, k)
    /\ ObjectGet(out, k) = Undef
    /\ IssuesFor(k) = {}

\* C7: a key whose normalized declaration is optional and has no default,
\* and whose raw value is missing, resolves to undefined with no issue.
OptionalResolvesUndefined ==
  \A i \in Processed :
    isMissing(env[entries[i].key])
      => UndefinedTaken(normalizeSpec(entries[i].value, 0), entries[i].key)

\* an optional key given "" came out undefined and the call returned
OptionalCameOutUndefined ==
  /\ pc = "returned"
  /\ Len(schema) = 2
  /\ env[schema[1].key] = Str(<<>>)
  /\ schema[1].value = StringDecl(S_boolean \o <<"?">>)
  /\ ObjectHas(out, schema[1].key)
  /\ ObjectGet(out, schema[1].key) = Undef

\* what C8 asks of key k, given what normalizeSpec gave for its declaration
MissingRecorded(spec, raw, k) ==
  /\ (\E j \in IssuesFor(k) : issues[j].kind = "missing")
       <=> (/\ spec.ok
            /\ isMissing(raw)
            /\ spec.spec.defaultValue = Undef
            /\ ~spec.spec.optional)
  /\ \A j \in IssuesFor(k) :
       issues[j].kind = "missing" =>
         /\ issues[j].message = Msg("missing required environment variable", <<>>, <<>>)
         /\ ~ObjectHas(out, k)
         /\ Cardinality(IssuesFor(k)) = 1

\* C8: an issue of kind "missing" is recorded for a key exactly when its
\* declaration normalizes, its raw value is missing, it has no default and
\* it is not optional; the message is "missing required environment
\* variable", the key gets no value, and every other issue is "invalid".
MissingIssueExactly ==
  /\ \A i \in Processed :
       MissingRecorded(normalizeSpec(entries[i].value, 0), env[entries[i].key],
                       entries[i].key)
  /\ \A j \in 1..Len(issues) : issues[j].kind \in {"missing", "invalid"}

\* a required key without a default, given "", was reported missing
RequiredReportedMissing ==
  /\ pc = "thrown"
  /\ Len(schema) = 1
  /\ env[schema[1].key] = Str(<<>>)
  /\ schema[1].value = StringDecl(S_url)
  /\ issues = <<Issue(schema[1].key, "missing",
                      Msg("missing required environment variable", <<>>, <<>>))>>

\* ------------------------------------------------------------------------
\* Properties of normalizeSpec
\* ------------------------------------------------------------------------
\* what C9 asks of one call, given the declaration and what the call gave
DefaultChecked(decl, spec) ==
  /\ (spec.ok /\ spec.spec.defaultValue # Undef) =>
       PassesRule(spec.spec, spec.spec.defaultValue)
  /\ (/\ spec.ok
      /\ decl.shape = "object"
      /\ decl.hasDefault
      /\ decl.default # Undef) => spec.spec.defaultValue # Undef

\* C9: every normalized declaration that has a default has one that passes
\* the runtime rule of its own kind (string: a string; number: a finite
\* number; boolean: a boolean; url: a string that parses as a URL; email: a
\* trimmed string of the email shape; enum: a member of values; regex: a
\* string matching the pattern; json: anything), and a declared default
\* that breaks the rule makes normalizeSpec fail instead of being dropped.
NormalizedDefaultPassesRule ==
  \A c \in 1..Len(normalized) :
    DefaultChecked(normalized[c].declaration, normalized[c].spec)

\* a number declared with the default "1" was normalized to the number 1
StringDefaultCoerced ==
  /\ Len(normalized) >= 1
  /\ declaration.type = Str(S_number)
  /\ declaration.default = Str(<<"1">>)
  /\ normalized[1].spec.ok
  /\ normalized[1].spec.spec.defaultValue = Num(1)

\* two calls gave equivalent specs, or failed with the same message
SameNormalization(a, b) ==
  /\ a.ok = b.ok
  /\ a.message = b.message
  /\ a.spec = b.spec

\* C10: normalizeSpec is pure: called again on the same declaration it
\* gives an equivalent spec or fails with the same message, and the
\* declaration it was given is left as it was.
NormalizeSpecIsPure ==
  \A c, d \in 1..Len(normalized) :
    /\ SameNormalization(normalized[c].spec, normalized[d].spec)
    /\ normalized[c].declaration = declaration

\* an email declaration whose default goes through EMAIL_RE was normalized
\* twice
EmailNormalizedTwice ==
  /\ Len(normalized) = 2
  /\ declaration.type = Str(S_email)
  /\ declaration.default = Str(T_email2)
  /\ normalized[1].spec.ok
  /\ normalized[2].spec.spec.defaultValue = Str(T_email1)

\* ------------------------------------------------------------------------
\* Properties of the present-value branches
\* ------------------------------------------------------------------------
\* raw matches the pattern of a regex declaration, as a freshly compiled
\* new RegExp(pattern, flags) decides it
MatchesDeclared(decl, raw) ==
  RegExpTest(RegExpNew(decl.pattern.s, FlagText(decl.flags)).value, raw).matched

\* the display form /pattern/flags of a regex declaration
DisplayForm(decl) == <<"/">> \o decl.pattern.s \o <<"/">> \o FlagText(decl.flags)

\* what C11 asks of key k, declared decl, normalized as spec, given raw
RegexDecided(decl, spec, raw, k) ==
  (spec.ok /\ spec.spec.kind = S_regex /\ ~isMissing(raw)) =>
    IF MatchesDeclared(decl, raw.s)
    THEN /\ IssuesFor(k) = {}
         /\ ObjectHas(out, k)
         /\ ObjectGet(out, k) = raw
    ELSE /\ ~ObjectHas(out, k)
         /\ Cardinality(IssuesFor(k)) = 1
         /\ \A j \in IssuesFor(k) :
              /\ issues[j].kind = "invalid"
              /\ issues[j].message
                   = Msg("does not match ${spec.display}", DisplayForm(decl), <<>>)

\* C11: for every regex declaration that normalizes (any accepted flags,
\* with or without a default) and every present raw value, the key is
\* accepted exactly when raw matches the compiled pattern, and then resolves
\* to raw unchanged; otherwise one "invalid" issue names /pattern/flags.
RegexAcceptsExactlyMatches ==
  \A i \in Processed :
    RegexDecided(entries[i].value, normalizeSpec(entries[i].value, 0),
                 env[entries[i].key], entries[i].key)

\* the allowed values of an enum declaration as the message lists them
AllowedList(decl) ==
  Join([i \in 1..Len(decl.values.elems) |-> decl.values.elems[i].s], <<",", " ">>)

\* what C12 asks of key k, declared decl, normalized as spec, given raw
EnumDecided(decl, spec, raw, k) ==
  (spec.ok /\ spec.spec.kind = S_enum /\ ~isMissing(raw)) =>
    IF \E i \in 1..Len(decl.values.elems) : decl.values.elems[i].s = raw.s
    THEN /\ IssuesFor(k) = {}
         /\ ObjectHas(out, k)
         /\ ObjectGet(out, k) = raw
    ELSE /\ ~ObjectHas(out, k)
         /\ Cardinality(IssuesFor(k)) = 1
         /\ \A j \in IssuesFor(k) :
              /\ issues[j].kind = "invalid"
              /\ issues[j].message
                   = Msg("expected one of [${spec.values.join(\", \")}], got \"${raw}\"",
                         AllowedList(decl), raw.s)

\* C12: for every enum declaration that normalizes and every present raw
\* value, the key is accepted exactly when raw equals one of values
\* character for character (case-sensitive, untrimmed), and then resolves
\* to raw; otherwise one "invalid" issue lists the allowed values and raw.
EnumAcceptsExactlyMembers ==
  \A i \in Processed :
    EnumDecided(entries[i].value, normalizeSpec(entries[i].value, 0),
                env[entries[i].key], entries[i].key)

\* raw "A" was refused by an enum of "a" and "y"
EnumRefusedOtherCase ==
  /\ pc = "thrown"
  /\ Len(schema) = 1
  /\ schema[1].value.type = Str(S_enum)
  /\ env[schema[1].key] = Str(<<"A">>)
  /\ Len(issues) = 1
  /\ issues[1].message.a = <<"a", ",", " ", "y">>
  /\ issues[1].message.b = <<"A">>

\* ------------------------------------------------------------------------
\* Properties of normalizeSpec: defaults, metadata, enum and string styles
\* ------------------------------------------------------------------------
\* the declaration without its own default property
WithoutDefault(decl) == [decl EXCEPT !.hasDefault = FALSE, !.default = Undef]

\* what C13 asks of one call, given the declaration and what the call gave
UndefinedDefaultIsNone(decl, spec) ==
  (/\ decl.shape = "object"
   /\ decl.type \in {Str(k) : k \in allowed \cup {S_enum, S_regex}}
   /\ decl.hasDefault
   /\ decl.default = Undef) =>
    /\ SameNormalization(spec, normalizeSpec(WithoutDefault(decl), 0))
    /\ spec.ok => spec.spec.defaultValue = Undef

\* C13: an object-style declaration (primitive, enum or regex) with an own
\* default property whose value is undefined normalizes exactly as the same
\* declaration without the default key: it succeeds where that one does, and
\* the spec has no defaultValue.
ExplicitUndefinedDefaultIsNoDefault ==
  \A c \in 1..Len(normalized) :
    UndefinedDefaultIsNone(normalized[c].declaration, normalized[c].spec)

\* what C14 asks of one call, given the declaration and what the call gave
MetadataCarried(decl, spec) ==
  spec.ok =>
    /\ TypeOf(spec.spec.secret) = "boolean"
    /\ (decl.shape = "string" \/ decl.secret = Undef) => spec.spec.secret = Bool(FALSE)
    /\ decl.shape = "object" =>
         /\ spec.spec.description = decl.description
         /\ spec.spec.example = decl.example
         /\ decl.secret # Undef => spec.spec.secret = decl.secret

BadMetadata(decl) ==
  \/ decl.description # Undef /\ TypeOf(decl.description) # "string"
  \/ decl.example # Undef /\ TypeOf(decl.example) # "string"
  \/ decl.secret # Undef /\ TypeOf(decl.secret) # "boolean"

BadMetadataNames(decl) ==
  {n \in {<<"d", "e", "s", "c", "r", "i", "p", "t", "i", "o", "n">>,
          <<"e", "x", "a", "m", "p", "l", "e">>, <<"s", "e", "c", "r", "e", "t">>} :
     \/ n[1] = "d" /\ decl.description # Undef /\ TypeOf(decl.description) # "string"
     \/ n[1] = "e" /\ decl.example # Undef /\ TypeOf(decl.example) # "string"
     \/ n[1] = "s" /\ decl.secret # Undef /\ TypeOf(decl.secret) # "boolean"}

EnumValuesValid(decl) ==
  /\ decl.values.isArray
  /\ Len(decl.values.elems) > 0
  /\ \A i \in 1..Len(decl.values.elems) : TypeOf(decl.values.elems[i]) = "string"

\* the default of an enum declaration is a string among its values
EnumDefaultValid(decl) ==
  /\ TypeOf(decl.default) = "string"
  /\ \E i \in 1..Len(decl.values.elems) : decl.values.elems[i] = decl.default

\* what C16 asks of one call, given the declaration and what the call gave
EnumChecked(decl, spec) ==
  (decl.shape = "object" /\ decl.type = Str(S_enum) /\ ~BadMetadata(decl)) =>
    /\ spec.ok <=> (EnumValuesValid(decl) /\ (decl.hasDefault => EnumDefaultValid(decl)))
    /\ spec.ok =>
         /\ spec.spec.kind = S_enum
         /\ spec.spec.values = decl.values.elems
         /\ spec.spec.defaultValue = (IF decl.hasDefault THEN decl.default ELSE Undef)
    /\ (/\ EnumValuesValid(decl)
        /\ decl.hasDefault
        /\ TypeOf(decl.default) = "string"
        /\ ~EnumDefaultValid(decl))
         => spec.message
              = Msg("default \"${def}\" must be one of [${values.join(\", \")}]",
                    decl.default.s, AllowedList(decl))

EnumValuesDistinct ==
  \A c \in 1..Len(normalized) :
    (normalized[c].spec.ok /\ normalized[c].spec.spec.kind = S_enum) =>
      \A i, j \in 1..Len(normalized[c].spec.spec.values) :
        i # j => normalized[c].spec.spec.values[i] # normalized[c].spec.spec.values[j]

\* the six base type names
BaseTypeNames ==
  {<<"s", "t", "r", "i", "n", "g">>, <<"n", "u", "m", "b", "e", "r">>,
   <<"b", "o", "o", "l", "e", "a", "n">>, <<"j", "s", "o", "n">>, <<"u", "r", "l">>,
   <<"e", "m", "a", "i", "l">>}

\* what C18 asks of one call on the string declaration str
StringChecked(str, spec) ==
  /\ spec.ok <=> \E b \in BaseTypeNames : str = b \/ str = b \o <<"?">>
  /\ spec.ok =>
       /\ spec.spec.kind \in BaseTypeNames
       /\ str \in {spec.spec.kind, spec.spec.kind \o <<"?">>}
       /\ spec.spec.optional <=> str = spec.spec.kind \o <<"?">>
       /\ spec.spec.defaultValue = Undef
  /\ ~spec.ok =>
       spec.message
         = Msg("Unsupported type \"${schemaValue}\". Supported: string, number, boolean, json, url, email (optional with ?)",
               str, <<>>)

\* C18: normalizeSpec accepts a string declaration exactly when, with at
\* most one trailing "?" removed, it is one of string, number, boolean,
\* json, url, email; the spec then has that kind, optional exactly when the
\* "?" was there, and no default. Every other string ("", "?", "number??",
\* "enum", "wat", another letter case, surrounding spaces) fails with the
\* "Unsupported type" message that names the allowed set.
StringStyleAcceptedExactly ==
  \A c \in 1..Len(normalized) :
    normalized[c].declaration.shape = "string"
      => StringChecked(normalized[c].declaration.str, normalized[c].spec)

\* " number" was refused with the "Unsupported type" message
SpacedNameRefused ==
  /\ Len(normalized) >= 1
  /\ declaration = StringDecl(<<" ">> \o S_number)
  /\ ~normalized[1].spec.ok
  /\ normalized[1].spec.message.a = <<" ", "n", "u", "m", "b", "e", "r">>

\* ------------------------------------------------------------------------
\* Properties of parseByType
\* ------------------------------------------------------------------------
\* the texts s and token are the same but for letter case
SameIgnoringCase(s, token) ==
  /\ Len(s) = Len(token)
  /\ \A i \in 1..Len(token) : ToLowerChar(s[i]) = token[i]

TrueWords ==
  {<<"t", "r", "u", "e">>, <<"1">>, <<"y", "e", "s">>, <<"y">>, <<"o", "n">>}
FalseWords ==
  {<<"f", "a", "l", "s", "e">>, <<"0">>, <<"n", "o">>, <<"n">>, <<"o", "f", "f">>}

\* what is asked of parseByType("boolean", raw), where text is the part of
\* raw that is compared with the tokens
BooleanChecked(raw, text, given) ==
  /\ (given.ok /\ given.value = Bool(TRUE))
       <=> \E token \in TrueWords : SameIgnoringCase(text, token)
  /\ (given.ok /\ given.value = Bool(FALSE))
       <=> \E token \in FalseWords : SameIgnoringCase(text, token)
  /\ ~given.ok <=> ~(\E token \in TrueWords \cup FalseWords : SameIgnoringCase(text, token))
  /\ ~given.ok =>
       given.message
         = Msg("expected boolean (true/false/1/0/yes/no/on/off), got \"${raw}\"",
               raw, <<>>)

\* C19 as stated: parseByType("boolean", raw) returns true exactly when raw
\* is, ignoring letter case, one of true, 1, yes, y, on, false exactly when
\* it is one of false, 0, no, n, off, and fails for every other raw string
\* with the message that names the accepted tokens.
BooleanTokensUntrimmed ==
  \A c \in 1..Len(parsed) :
    parseType = S_boolean => BooleanChecked(parseRaw, parseRaw, parsed[c])

\* C19 as amended: the same of raw with the white space around it removed;
\* the message quotes raw as given.
BooleanTokensTrimmed ==
  \A c \in 1..Len(parsed) :
    parseType = S_boolean => BooleanChecked(parseRaw, Trim(parseRaw), parsed[c])

\* " true " was taken as true, and "N" as false
BooleanTokenTaken ==
  /\ Len(parsed) >= 1
  /\ parseType = S_boolean
  /\ \/ parseRaw = <<" ", "t", "r", "u", "e", " ">> /\ parsed[1].value = Bool(TRUE)
     \/ parseRaw = <<"N">> /\ parsed[1].ok /\ parsed[1].value = Bool(FALSE)

\* a decimal integer with an optional sign
IsSignedDigits(text) ==
  /\ Len(Unsigned(text)) > 0
  /\ \A i \in 1..Len(Unsigned(text)) : Unsigned(text)[i] \in Range(Digits)

\* what C20 asks of parseByType("number", raw), where text is raw trimmed
NumberChecked(raw, text, given) ==
  /\ given.ok <=> IsSignedDigits(text)
  /\ given.ok =>
       given.value = Num(IF text[1] = "-" THEN 0 - DigitsValue(Unsigned(text))
                         ELSE DigitsValue(Unsigned(text)))
  /\ ~given.ok =>
       given.message = Msg("expected number, got \"${raw}\"", raw, <<>>)

\* C20: parseByType("number", raw) trims raw and succeeds exactly when the
\* trimmed text is a numeric literal of a finite number, returning that
\* number; for every other raw string ("abc", "NaN", "Infinity" among them)
\* it fails with the message expected number, got "<raw>", quoting the
\* untrimmed raw. The numeric literals among the inputs are the signed
\* decimal integers.
NumberLiteralsExactly ==
  \A c \in 1..Len(parsed) :
    parseType = S_number => NumberChecked(parseRaw, Trim(parseRaw), parsed[c])

\* ------------------------------------------------------------------------
\* Properties of the returned mapping and of present values
\* ------------------------------------------------------------------------
\* the value the code resolves for a key whose iteration is `done`
EntryIs(mapping, k, done) ==
  /\ done.assigned
  /\ ObjectGet(mapping, k) = done.value

\* C25: a call that returns gives a mapping whose key set is the schema's
\* key set: one entry per declared key (the value parsed from raw, the
\* default, or undefined for an optional key without a value) and no entry
\* for an env key the schema does not declare.
ReturnedKeysAreSchemaKeys ==
  pc = "returned" =>
    /\ ObjectKeys(result.value) = ObjectKeys(schema)
    /\ Len(result.value) = Len(schema)
    /\ \A i \in 1..Len(schema) :
         EntryIs(result.value, schema[i].key,
                 resolveKey(schema[i].value, env[schema[i].key], 0))

\* a returned mapping with an undefined entry for an optional key, a parsed
\* entry, and nothing for the undeclared name that env holds
ReturnedWithUndefinedEntry ==
  /\ pc = "returned"
  /\ Len(schema) = 2
  /\ \E k \in KeyNames \ ObjectKeys(schema) : env[k] = Str(<<"1">>)
  /\ ObjectGet(result.value, schema[1].key) = Undef
  /\ ObjectGet(result.value, schema[2].key) = Num(1)

\* a regex declaration with a g or y flag and a default
StatefulWithDefault(decl) ==
  /\ decl.shape = "object"
  /\ decl.type = Str(S_regex)
  /\ decl.hasDefault
  /\ TypeOf(decl.flags) = "string"
  /\ \E i \in 1..Len(decl.flags.s) : decl.flags.s[i] \in {"g", "y"}

\* C26: the compiled regex carries no match state from normalization into
\* validation: for a regex declaration with a g or y flag and a default, a
\* present raw value ends as it does for the same declaration without the
\* default.
RegexStateNotCarried ==
  \A i \in Processed :
    (/\ StatefulWithDefault(entries[i].value)
     /\ normalizeSpec(entries[i].value, 0).ok
     /\ ~isMissing(env[entries[i].key]))
      => SameOutcome(resolveKey(WithoutDefault(entries[i].value), env[entries[i].key], 0),
                     entries[i].key)

\* a present raw text is valid for a declaration of the given kind
PresentValid(decl, spec, raw) ==
  CASE spec.kind = S_string -> TRUE
    [] spec.kind = S_number -> IsSignedDigits(Trim(raw))
    [] spec.kind = S_boolean ->
         \E token \in TrueWords \cup FalseWords : SameIgnoringCase(Trim(raw), token)
    [] spec.kind = S_json -> JSONParse(raw).ok
    [] spec.kind = S_url -> URLParses(raw)
    [] spec.kind = S_email -> EmailShape(Trim(raw))
    [] spec.kind = S_enum -> \E i \in 1..Len(spec.values) : spec.values[i].s = raw
    [] spec.kind = S_regex -> MatchesDeclared(decl, raw)

\* the value parsed from a valid present raw text
ParsedFrom(spec, raw) ==
  IF spec.kind \in {S_enum, S_regex} THEN Str(raw)
  ELSE parseByType(spec.kind, raw, 0).value

\* what C27 asks of key k, declared decl, normalized as spec, given raw
PresentDecides(decl, spec, raw, k) ==
  (spec.ok /\ ~isMissing(raw)) =>
    IF PresentValid(decl, spec.spec, raw.s)
    THEN /\ IssuesFor(k) = {}
         /\ ObjectHas(out, k)
         /\ ObjectGet(out, k) = ParsedFrom(spec.spec, raw.s)
    ELSE /\ ~ObjectHas(out, k)
         /\ Cardinality(IssuesFor(k)) = 1
         /\ \A j \in IssuesFor(k) : issues[j].kind = "invalid"

\* C27: a present non-empty raw value takes precedence over default and
\* optional: when it is invalid the key gets an "invalid" issue, never the
\* default or undefined; when it is valid the key resolves to the value
\* parsed from raw, not to the default.
PresentValueTakesPrecedence ==
  \A i \in Processed :
    PresentDecides(entries[i].value, normalizeSpec(entries[i].value, 0),
                   env[entries[i].key], entries[i].key)

\* C30: a number-typed key never resolves to a number from a raw value that
\* is only white space: for a present raw value that is blank after
\* trimming, the key gets an issue and no value.
BlankIsNoNumber ==
  \A i \in Processed :
    (/\ normalizeSpec(entries[i].value, 0).ok
     /\ normalizeSpec(entries[i].value, 0).spec.kind = S_number
     /\ ~isMissing(env[entries[i].key])
     /\ Trim(env[entries[i].key].s) = <<>>)
      => /\ IssuesFor(entries[i].key) # {}
         /\ ~ObjectHas(out, entries[i].key)

\* C28: the outcome for key k depends only on schema[k] and env[k]: it is
\* what the key gets when it is resolved alone, whatever the other keys'
\* declarations and raw values and whatever env holds for undeclared names;
\* a second call with the same schema and env gives the same result, and
\* schema and env are as they were.
OutcomeOfKeyIsItsOwn ==
  /\ \A i \in Processed :
       SameOutcome(resolveKey(entries[i].value, env[entries[i].key], 0), entries[i].key)
  /\ \A c \in 1..Len(earlier) :
       /\ earlier[c].schema = schema
       /\ earlier[c].env = env
       /\ Done => earlier[c].result = result

\* a second call has finished on a schema of two email keys, the first of
\* which was given an address
SecondCallOnTwoEmails ==
  /\ Done
  /\ Len(earlier) = 1
  /\ Len(schema) = 2
  /\ \A i \in 1..2 : schema[i].value = StringDecl(S_email)
  /\ env[entries[1].key] = Str(T_email1)
  /\ env[entries[2].key] = Str(T_email1)
  /\ pc = "returned"

\* ------------------------------------------------------------------------
\* Properties of the command line
\* ------------------------------------------------------------------------
\* the command, and the schema when its file loads
Command == parseArgs(argv).cmd
Asked(word) == Command = Str(word)
SchemaLoads(fs) ==
  /\ parseArgs(argv).schemaPath # Undef
  /\ existsSync(fs, parseArgs(argv).schemaPath.s)
  /\ fs[parseArgs(argv).schemaPath.s].kind = "json"
  /\ fs[parseArgs(argv).schemaPath.s].doc.value = PlainObject
  /\ \A i \in 1..Len(fs[parseArgs(argv).schemaPath.s].doc.props) :
       normalizeSpec(fs[parseArgs(argv).schemaPath.s].doc.props[i].value, 0).ok
SchemaOf(fs) == fs[parseArgs(argv).schemaPath.s].doc.props

\* the output path and the mode of generate
OutPath == IF parseArgs(argv).outFile = Undef THEN F_env ELSE parseArgs(argv).outFile.s
Mode == IF parseArgs(argv).mode = Undef THEN A_update ELSE parseArgs(argv).mode.s

\* the env that check validates: the env file's values over process.env's
EnvFilePath == IF parseArgs(argv).envFile = Undef THEN F_env ELSE parseArgs(argv).envFile.s
CheckedEnv(fs, penv) ==
  IF parseArgs(argv).useDotenv /\ existsSync(fs, EnvFilePath)
  THEN ObjectAssign(penv, dotenvParse(fs[EnvFilePath].text))
  ELSE penv

\* some key of the schema fails validation
ValidationFails(fs, penv) ==
  \E i \in 1..Len(SchemaOf(fs)) :
    KeyFailed(SchemaOf(fs)[i].value, Lookup(CheckedEnv(fs, penv), SchemaOf(fs)[i].key))

\* the command line is a usage error, or the command cannot be carried out
UsageError(fs) ==
  \/ parseArgs(argv).schemaPath = Undef
  \/ Asked(A_check) /\ parseArgs(argv).invalidCheckFormat # Undef
  \/ ~SchemaLoads(fs)
  \/ ~Asked(A_check) /\ ~Asked(A_generate)
  \/ Asked(A_generate) /\ Mode = A_create /\ existsSync(fs, OutPath)

\* the exit code C21 asks for
ExitCodeFor(fs, penv) ==
  IF Command = Undef \/ Command \in HelpWords THEN 0
  ELSE IF UsageError(fs) THEN 2
  ELSE IF Asked(A_check) /\ ValidationFails(fs, penv) THEN 1
  ELSE 0

\* C21: runCli returns 0 when the command succeeds (help or no command, a
\* check of a valid environment, a completed generate), 1 exactly when the
\* validation of check fails, and 2 for every usage or unexpected error
\* (missing --schema, unknown command, invalid --format on check, a schema
\* file that is unreadable, unparsable, no object or holds a rejected
\* declaration, generate --mode create on an existing file); it returns
\* nothing else.
ExitCodesAsDocumented ==
  \A c \in 1..Len(runs) :
    /\ runs[c].code \in {0, 1, 2}
    /\ runs[c].code = ExitCodeFor(runs[c].before, processEnv)

\* a check whose validation failed returned 1 and reported two issues
CheckFailedWithOne ==
  /\ Len(runs) = 1
  /\ Asked(A_check)
  /\ runs[1].code = 1
  /\ Len(runs[1].io) = 2
  /\ \A j \in 1..2 : runs[1].io[j].stream = "error"

\* the declaration of key k is marked secret: true
DeclaredSecret(sch, k) ==
  /\ ObjectHas(sch, k)
  /\ ObjectGet(sch, k).shape = "object"
  /\ ObjectGet(sch, k).secret = Bool(TRUE)

\* the message with "<redacted>" where the raw value stood; a message that
\* names no raw value becomes invalid value, got "<redacted>"
RawRedacted(m) ==
  IF m.tag = "does not match ${spec.display}"
  THEN <<"i", "n", "v", "a", "l", "i", "d", " ", "v", "a", "l", "u", "e", ",", " ",
         "g", "o", "t", " ", "\"", "<", "r", "e", "d", "a", "c", "t", "e", "d", ">", "\"">>
  ELSE IF m.tag = "expected one of [${spec.values.join(\", \")}], got \"${raw}\""
  THEN MessageText([m EXCEPT !.b = <<"<", "r", "e", "d", "a", "c", "t", "e", "d", ">">>])
  ELSE MessageText([m EXCEPT !.a = <<"<", "r", "e", "d", "a", "c", "t", "e", "d", ">">>])

\* the issues as C22 wants them shown
ShownAsAsked(found, sch) ==
  [i \in 1..Len(found) |->
     [key |-> found[i].key, kind |-> found[i].kind,
      message |-> IF found[i].kind = "invalid" /\ DeclaredSecret(sch, found[i].key)
                  THEN RawRedacted(found[i].message)
                  ELSE MessageText(found[i].message)]]

\* the texts io.error was given
ErrorTexts(io) == [j \in 1..Len(io) |-> io[j].text]

\* process.env with another value for key k
OtherRaws == {<<"a">>, <<"y">>, <<"x", " ", "1">>, <<"%">>}
WithRaw(penv, k, raw) == ObjectSet(penv, k, Str(raw))

\* what C22 asks of a check that failed with the issues found: the lines
\* are those of the issues shown as asked, and they stay the same when the
\* invalid raw value that process.env gives a secret key is another one
Redacted(io, fs, penv, sch, found) ==
  /\ ErrorTexts(io) = formatShown(ShownAsAsked(found, sch), parseArgs(argv).checkFormat)
  /\ \A i \in 1..Len(found), raw \in OtherRaws :
       (/\ found[i].kind = "invalid"
        /\ DeclaredSecret(sch, found[i].key)
        /\ Lookup(CheckedEnv(fs, WithRaw(penv, found[i].key, raw)), found[i].key) = Str(raw)
        /\ KeyFailed(Lookup(sch, found[i].key), Str(raw)))
         => runCli(argv, fs, WithRaw(penv, found[i].key, raw), 0).io = io

Generates(mode, fs) == Asked(A_generate) /\ Mode = mode /\ SchemaLoads(fs)

\* the keys that dotenv reads from a file
DefinedIn(file) == IF file.kind = "none" THEN {} ELSE ObjectKeys(dotenvParse(file.text))

\* the file new holds what the file old held, and then more or nothing: a
\* file that did not exist held nothing
IsPrefixFile(old, new) ==
  \/ old.kind = "none"
  \/ /\ new.kind = "text"
     /\ Len(old.text) <= Len(new.text)
     /\ SubSeq(new.text, 1, Len(old.text) - 1) = SubSeq(old.text, 1, Len(old.text) - 1)
     /\ Len(old.text[Len(old.text)]) <= Len(new.text[Len(old.text)])
     /\ SubSeq(new.text[Len(old.text)], 1, Len(old.text[Len(old.text)]))
          = old.text[Len(old.text)]

\* the lines that the file new has after those of the file old
AddedLines(old, new) ==
  IF new.kind = "none" THEN <<>>
  ELSE IF old.kind = "none" THEN new.text
  ELSE <<Slice(new.text[Len(old.text)], Len(old.text[Len(old.text)]))>>
         \o SubSeq(new.text, Len(old.text) + 1, Len(new.text))

\* the lines among ls that assign key k, that are comments, that are empty
Assigning(ls, k) == {j \in 1..Len(ls) : StartsWith(ls[j], k \o <<"=">>)}
Comments(ls) == {j \in 1..Len(ls) : StartsWith(ls[j], <<"#">>)}
Empty(ls) == {j \in 1..Len(ls) : ls[j] = <<>>}

\* the lines ls are one assignment line for each key of ks, with comment
\* lines and nothing else but the empty end of the text
OneLineEach(ls, ks) ==
  /\ \A k \in ks : Cardinality(Assigning(ls, k)) = 1
  /\ \A j \in 1..Len(ls) :
       j \in Comments(ls) \cup Empty(ls) \/ \E k \in ks : j \in Assigning(ls, k)

\* every file but the one at path p is as it was
OthersKept(before, after, p) == \A q \in DOMAIN before : q # p => after[q] = before[q]

\* what C23 asks of a run that found the file `old` at the output path and
\* left `new` there, for the schema sch
OnlyAppended(old, new, sch) ==
  /\ IsPrefixFile(old, new)
  /\ \A k \in ObjectKeys(sch) \cap DefinedIn(old) : Assigning(AddedLines(old, new), k) = {}
  /\ OneLineEach(AddedLines(old, new), ObjectKeys(sch) \ DefinedIn(old))

\* C23: generate in update mode only appends: the previous content of the
\* output file is kept as a prefix of the new content, no key that the file
\* already defines (even with an empty value, or written as export KEY=...)
\* is written again, and exactly the schema keys that the file does not
\* define are appended, one assignment line each.
UpdateOnlyAppends ==
  \A c \in 1..Len(runs) :
    Generates(A_update, runs[c].before) =>
      /\ runs[c].code = 0
      /\ OthersKept(runs[c].before, runs[c].after, OutPath)
      /\ OnlyAppended(runs[c].before[OutPath], runs[c].after[OutPath],
                      SchemaOf(runs[c].before))

\* a run appended the line of B to a file that defined A with an empty value
\* and, behind export, nothing else of the schema
AppendedTheMissingKey ==
  /\ Len(runs) = 1
  /\ Generates(A_update, runs[1].before)
  /\ ObjectKeys(SchemaOf(files)) = {KeyA, KeyB}
  /\ runs[1].before[OutPath].kind = "text"
  /\ DefinedIn(runs[1].before[OutPath]) = {KeyA}
  /\ Assigning(AddedLines(runs[1].before[OutPath], runs[1].after[OutPath]), KeyB) # {}

\* what C24 asks of a run of generate in create mode that found the files
\* before and left the files after
CreatedOrRefused(run, sch) ==
  IF existsSync(run.before, OutPath)
  THEN /\ run.code = 2
       /\ run.io = <<Line("error", "Refusing to overwrite existing file: ${outPath}",
                          OutPath, <<>>)>>
       /\ run.after = run.before
  ELSE /\ run.code = 0
       /\ run.after[OutPath].kind = "text"
       /\ OneLineEach(run.after[OutPath].text, ObjectKeys(sch))
       /\ OthersKept(run.before, run.after, OutPath)

\* C24: generate with --mode create on an output path that exists returns 2,
\* reports "Refusing to overwrite existing file" and leaves the file as it
\* is; on a path that does not exist it creates the file with exactly one
\* assignment line for each schema key.
CreateRefusesOrCreates ==
  \A c \in 1..Len(runs) :
    Generates(A_create, runs[c].before) =>
      CreatedOrRefused(runs[c], SchemaOf(runs[c].before))

\* the one line that generate logs when it finds nothing to add
NothingToGenerate == <<Line("log", "No missing variables. Nothing to generate.", <<>>, <<>>)>>

\* C29: generate in update mode is idempotent: a second run with the same
\* arguments right after a first successful run finds every schema key
\* defined, reports that there is nothing to generate, returns 0 and leaves
\* the output file exactly as the first run left it.
UpdateIsIdempotent ==
  \A c \in 2..Len(runs) :
    Generates(A_update, runs[c - 1].before) /\ runs[c - 1].code = 0 =>
      /\ ObjectKeys(SchemaOf(runs[c].before)) \subseteq DefinedIn(runs[c].before[OutPath])
      /\ runs[c].io = NothingToGenerate
      /\ runs[c].code = 0
      /\ runs[c].after = runs[c].before

====
